---- MODULE Spec2Model ----
(***************************************************************************)
(* Model of the localization stage of RPTFEMReconstruction<3>              *)
(* (source/rpt/rpt_fem_reconstruction.cc): the per-cell least-squares      *)
(* solve, the validity check, the cost function, the global and the local  *)
(* cell search, the trajectory driver, the checkpoint load and the export. *)
(*                                                                         *)
(* Doubles are modelled by exact rationals <<numerator, denominator>> with *)
(* a positive denominator, kept in lowest terms.  LAPACK's LU solve of a   *)
(* non-singular system is its exact solution (Cramer's rule); a singular   *)
(* system makes compute_lu_factorization() throw, and nothing in the       *)
(* source catches the exception, so it ends the run.                       *)
(***************************************************************************)
EXTENDS Integers, Naturals, Sequences, FiniteSets, TLC

(***************************************************************************)
(* Bounds of the model.                                                    *)
(***************************************************************************)
\* longest measurement record (number of observations) that is explored
MaxObs == 3
\* largest configured search_proximity_level that is explored
MaxLevel == 2
\* the largest number of detectors whose fields checkpoint() is given
MaxSaved == 3
\* the largest proximity level for which candidate cells are built on their own
MaxHops == 3

\* template class RPTFEMReconstruction<3>
dim == 3

(***************************************************************************)
(* Exact rational arithmetic standing for double arithmetic.               *)
(***************************************************************************)
Abs(a) == IF a < 0 THEN -a ELSE a

RECURSIVE Gcd(_, _)
Gcd(a, b) == IF b = 0 THEN a ELSE Gcd(b, a % b)

Norm(n, d) ==
  LET s == IF d < 0 THEN -1 ELSE 1
      g == Gcd(Abs(n), Abs(d))
  IN  <<(s * n) \div g, (s * d) \div g>>

RInt(n) == <<n, 1>>
RZero == RInt(0)
ROne == RInt(1)

RAdd(x, y) ==
  LET g == Gcd(x[2], y[2])
  IN  Norm(x[1] * (y[2] \div g) + y[1] * (x[2] \div g), (x[2] \div g) * y[2])

RNeg(x) == <<-x[1], x[2]>>
RSub(x, y) == RAdd(x, RNeg(y))

RMul(x, y) ==
  LET g1 == Gcd(Abs(x[1]), y[2])
      g2 == Gcd(Abs(y[1]), x[2])
  IN  Norm((x[1] \div g1) * (y[1] \div g2), (x[2] \div g2) * (y[2] \div g1))

\* x / y for y # 0
RDiv(x, y) == RMul(x, Norm(y[2], y[1]))

\* x < y; also right for y = DBL_MAX
RLt(x, y) == x[1] * y[2] < y[1] * x[2]
RGt(x, y) == RLt(y, x)
RAbs(x) == <<Abs(x[1]), x[2]>>

\* the sum of f[1] .. f[n]
RECURSIVE RSum(_, _)
RSum(f, n) == IF n = 0 THEN RZero ELSE RAdd(RSum(f, n - 1), f[n])

\* DBL_MAX: larger than every cost the model computes
DBL_MAX == <<1, 0>>

(***************************************************************************)
(* The mesh: five tetrahedra in a strip, consecutive cells sharing an      *)
(* edge.  cell_vertex_index[c][v + 1] is cell->vertex_index(v).            *)
(***************************************************************************)
cell_vertex_index ==
  << <<1, 2, 3, 4>>, <<3, 4, 5, 6>>, <<5, 6, 7, 8>>, <<7, 8, 9, 10>>,
     <<9, 10, 11, 12>> >>

Cells == 1..Len(cell_vertex_index)
NoCell == 0
n_vertices == dim + 1
Vertices == UNION {{cell_vertex_index[c][v] : v \in 1..n_vertices} : c \in Cells}
n_dofs == Cardinality(Vertices)

\* Point<3> as a triple of rationals; Point<dim>() is the origin
Point(x, y, z) == <<RInt(x), RInt(y), RInt(z)>>
DefaultPoint == Point(0, 0, 0)

\* triangulation vertex coordinates
vertex_position(vi) == Point(vi, vi % 2, (vi \div 2) % 2)

\* cell->vertex(v), v = 0 .. 3
vertex(c, v) == vertex_position(cell_vertex_index[c][v + 1])

\* cell->vertex_dof_index(v, 0): one degree of freedom per vertex
vertex_dof_index(c, v) == n_dofs + 1 - cell_vertex_index[c][v + 1]

\* GridTools::find_cells_adjacent_to_vertex(dof_handler, v_index)
find_cells_adjacent_to_vertex(vi) ==
  {c \in Cells : \E v \in 1..n_vertices : cell_vertex_index[c][v] = vi}

(***************************************************************************)
(* The nodal count fields written by checkpoint(), one file per detector,  *)
(* indexed by degree of freedom, and the rows a measurement record may     *)
(* hold (one column per detector).                                         *)
(***************************************************************************)
saved_nodal_counts ==
  << <<1, 3, 0, 2, 2, 1, 1, 1, 1, 0, 3, 0>>,
     <<2, 2, 0, 3, 2, 3, 1, 3, 0, 1, 3, 0>>,
     <<0, 2, 1, 2, 3, 2, 1, 0, 1, 3, 0, 3>>,
     <<2, 2, 0, 0, 0, 1, 2, 0, 3, 2, 3, 2>> >>

measured_rows == {<<1, 1, 1, 2>>, <<2, 2, 2, 1>>, <<1, 2, 3, 3>>}

(***************************************************************************)
(* assemble_matrix_and_rhs<dim>: the dim x dim normal equations and their  *)
(* solution.  vertex_count[d][v + 1] is the code's vertex_count[d][v].     *)
(***************************************************************************)
Det3(M) ==
  RAdd(RSub(RMul(M[1][1], RSub(RMul(M[2][2], M[3][3]), RMul(M[2][3], M[3][2]))),
            RMul(M[1][2], RSub(RMul(M[2][1], M[3][3]), RMul(M[2][3], M[3][1])))),
       RMul(M[1][3], RSub(RMul(M[2][1], M[3][2]), RMul(M[2][2], M[3][1]))))

\* a dim-vector and a dim x dim matrix from their entries
Vector3(e) == <<e[1], e[2], e[3]>>
Matrix3(e) ==
  <<<<e[1, 1], e[1, 2], e[1, 3]>>,
    <<e[2, 1], e[2, 2], e[2, 3]>>,
    <<e[3, 1], e[3, 2], e[3, 3]>>>>

\* sys_matrix.compute_lu_factorization(); sys_matrix.solve(sys_rhs):
\* throws on a singular matrix, else leaves the solution in sys_rhs
lu_solve(sys_matrix, sys_rhs) ==
  LET det == Det3(sys_matrix)
      replaced(i) ==
        LET e(r, c) == IF c = i THEN sys_rhs[r] ELSE sys_matrix[r][c]
        IN  Matrix3([r \in 1..dim, c \in 1..dim |-> e(r, c)])
      x(i) == RDiv(Det3(replaced(i)), det)
  IN  IF det = RZero
        THEN [thrown |-> TRUE, reference_location |-> <<>>]
        ELSE [thrown |-> FALSE, reference_location |-> Vector3([i \in 1..dim |-> x(i)])]

\* denom[d] = 1 / (experimental_count[d] * experimental_count[d])
denom_of(experimental_count, d) ==
  RDiv(ROne, RInt(experimental_count[d] * experimental_count[d]))

\* mutant: the two differences are added, not multiplied
sys_matrix_of_added(vertex_count, experimental_count, cost_function_type) ==
  LET detector_size == Len(vertex_count)
      sigma(i, j) ==
        RSum([d \in 1..detector_size |->
                IF cost_function_type = "absolute"
                  THEN RInt((-vertex_count[d][1] + vertex_count[d][j + 1]) +
                            (-vertex_count[d][1] + vertex_count[d][i + 1]))
                  ELSE RMul(RInt((-vertex_count[d][1] + vertex_count[d][j + 1]) +
                                 (-vertex_count[d][1] + vertex_count[d][i + 1])),
                            denom_of(experimental_count, d))],
             detector_size)
  IN  Matrix3([i \in 1..dim, j \in 1..dim |-> sigma(i, j)])

sys_matrix_of(vertex_count, experimental_count, cost_function_type) ==
  LET detector_size == Len(vertex_count)
      sigma(i, j) ==
        RSum([d \in 1..detector_size |->
                IF cost_function_type = "absolute"
                  THEN RInt((-vertex_count[d][1] + vertex_count[d][j + 1]) *
                            (-vertex_count[d][1] + vertex_count[d][i + 1]))
                  ELSE RMul(RInt((-vertex_count[d][1] + vertex_count[d][j + 1]) *
                                 (-vertex_count[d][1] + vertex_count[d][i + 1])),
                            denom_of(experimental_count, d))],
             detector_size)
  IN  Matrix3([i \in 1..dim, j \in 1..dim |-> sigma(i, j)])

\* mutant: sys_rhs[i] = sigma, the sign is not changed
sys_rhs_of_unnegated(vertex_count, experimental_count, cost_function_type) ==
  LET detector_size == Len(vertex_count)
      sigma(i) ==
        RSum([d \in 1..detector_size |->
                IF cost_function_type = "absolute"
                  THEN RInt((vertex_count[d][1] - experimental_count[d]) *
                            (-vertex_count[d][1] + vertex_count[d][i + 1]))
                  ELSE RMul(RInt((vertex_count[d][1] - experimental_count[d]) *
                                 (-vertex_count[d][1] + vertex_count[d][i + 1])),
                            denom_of(experimental_count, d))],
             detector_size)
  IN  Vector3([i \in 1..dim |-> sigma(i)])

sys_rhs_of(vertex_count, experimental_count, cost_function_type) ==
  LET detector_size == Len(vertex_count)
      sigma(i) ==
        RSum([d \in 1..detector_size |->
                IF cost_function_type = "absolute"
                  THEN RInt((vertex_count[d][1] - experimental_count[d]) *
                            (-vertex_count[d][1] + vertex_count[d][i + 1]))
                  ELSE RMul(RInt((vertex_count[d][1] - experimental_count[d]) *
                                 (-vertex_count[d][1] + vertex_count[d][i + 1])),
                            denom_of(experimental_count, d))],
             detector_size)
      minus_sigma(i) == RNeg(sigma(i))
  IN  Vector3([i \in 1..dim |-> minus_sigma(i)])

assemble_matrix_and_rhs(vertex_count, experimental_count, cost_function_type) ==
  lu_solve(sys_matrix_of(vertex_count, experimental_count, cost_function_type),
           sys_rhs_of(vertex_count, experimental_count, cost_function_type))

\* mutant: the last constraint is not checked
calculate_reference_location_error_without_last(reference_location, last_constraint) ==
  LET outside(x) == IF RGt(x, ROne) THEN RSub(x, ROne)
                    ELSE IF RLt(x, RZero) THEN RAbs(x)
                    ELSE RZero
  IN  RSum([i \in 1..dim |-> RMul(outside(reference_location[i]),
                                  outside(reference_location[i]))],
           dim)

(***************************************************************************)
(* calculate_reference_location_error: the squared distance of the dim + 1 *)
(* reference coordinates from [0, 1].                                      *)
(***************************************************************************)
calculate_reference_location_error(reference_location, last_constraint) ==
  LET outside(x) == IF RGt(x, ROne) THEN RSub(x, ROne)
                    ELSE IF RLt(x, RZero) THEN RAbs(x)
                    ELSE RZero
      err_coordinates ==
        <<outside(reference_location[1]), outside(reference_location[2]),
          outside(reference_location[3]),
          IF RLt(last_constraint, RZero) THEN RAbs(last_constraint)
          ELSE IF RGt(last_constraint, ROne) THEN RSub(last_constraint, ROne)
          ELSE RZero>>
  IN  RSum([i \in 1..(dim + 1) |-> RMul(err_coordinates[i], err_coordinates[i])],
           dim + 1)

\* 1 - reference_location[0] - reference_location[1] - reference_location[2]
last_constraint_of(reference_location) ==
  RSub(RSub(RSub(ROne, reference_location[1]), reference_location[2]),
       reference_location[3])

\* mutant: the edges of the cell are not taken relative to vertex 0
real_location_of_unshifted(c, reference_location) ==
  LET coordinate(k) ==
        RAdd(vertex(c, 0)[k],
             RSum([v \in 1..dim |->
                     RMul(reference_location[v], vertex(c, v)[k])],
                  dim))
  IN  Vector3([k \in 1..dim |-> coordinate(k)])

\* the real location of the particle: vertex(0) + sum over v = 1 .. 3 of
\* reference_location[v - 1] * (vertex(v) - vertex(0))
real_location_of(c, reference_location) ==
  LET coordinate(k) ==
        RAdd(vertex(c, 0)[k],
             RSum([v \in 1..dim |->
                     RMul(reference_location[v],
                          RSub(vertex(c, v)[k], vertex(c, 0)[k]))],
                  dim))
  IN  Vector3([k \in 1..dim |-> coordinate(k)])

(***************************************************************************)
(* The state of a localization run (rpt_fem_reconstruct).                  *)
(***************************************************************************)
VARIABLES
  fem_reconstruction_parameters, \* the configuration: search_type, search_proximity_level,
                                 \* fem_cost_function, mesh_type, nodal_counts_file, ...
  active_cells,            \* the cells in the order of dof_handler.active_cell_iterators(),
                           \* which is also the order of a std::set of cell iterators
  pc,                      \* where the run is
  n_detector,              \* member n_detector
  nodal_counts,            \* member nodal_counts: one field per detector, by dof index
  all_experimental_counts, \* the measurement record read by trajectory()
  tol_reference_location,  \* the extrapolation limit computed by trajectory()
  obs_index,               \* number of observations whose loop body has begun
  adjacent_cell_search,    \* trajectory()'s flag: try the local search next
  previous_position_cell,  \* member previous_position_cell (the anchor)
  found_positions,         \* member found_positions (the trajectory)
  search,                  \* the locals of the search call in progress
  calls,                   \* history: one record per search call that has ended
  exported,                \* the rows written by export_found_positions()
  unit                     \* a member function called on its own: its name,
                           \* its arguments and what it returned

vars ==
  <<fem_reconstruction_parameters, active_cells, pc, n_detector, nodal_counts,
    all_experimental_counts, tol_reference_location, obs_index, adjacent_cell_search,
    previous_position_cell, found_positions, search, calls, exported, unit>>

config == <<fem_reconstruction_parameters, active_cells>>
field_store == <<n_detector, nodal_counts>>

\* the cell numberings of the mesh that are explored
cell_orders == {<<1, 2, 3, 4, 5>>, <<5, 4, 3, 2, 1>>, <<3, 1, 5, 2, 4>>}

\* the elements of a set of cells in std::set (cell iterator) order
ordered(S) == SelectSeq(active_cells, LAMBDA c : c \in S)

\* no member function has been called on its own
NoUnit == [op |-> "none"]

NoSearch ==
  [kind |-> "none", cells |-> <<>>, next |-> 1, visited |-> <<>>,
   max_cost_function |-> DBL_MAX, position_found |-> FALSE,
   real_location |-> DefaultPoint, anchor |-> NoCell, len_before |-> 0,
   end_dereferenced |-> FALSE]

Init ==
  /\ fem_reconstruction_parameters \in
       [search_type : {"local", "global"},
        search_proximity_level : 1..MaxLevel,
        fem_cost_function : {"absolute", "relative"},
        mesh_type : {"gmsh", "dealii"},
        z_subdivisions : {1},
        mesh_refinement : {1},
        reactor_height : {<<20, 23>>},
        nodal_counts_file : {[i \in 1..n |-> i] : n \in 2..Len(saved_nodal_counts)}]
  \* search_proximity_level is read by the local search only: the global-only
  \* runs are explored for one value of it
  /\ fem_reconstruction_parameters.search_type = "global" =>
       fem_reconstruction_parameters.search_proximity_level = 1
  /\ active_cells \in cell_orders
  /\ pc = "load_from_checkpoint"
  /\ n_detector = 0
  /\ nodal_counts = <<>>
  /\ all_experimental_counts = <<>>
  /\ tol_reference_location = RZero
  /\ obs_index = 0
  /\ adjacent_cell_search = FALSE
  /\ previous_position_cell = NoCell
  /\ found_positions = <<>>
  /\ search = NoSearch
  /\ calls = <<>>
  /\ exported = <<>>
  /\ unit = NoUnit

(***************************************************************************)
(* load_from_checkpoint()                                                  *)
(***************************************************************************)
LoadFromCheckpoint ==
  /\ pc = "load_from_checkpoint"
  /\ n_detector' = Len(fem_reconstruction_parameters.nodal_counts_file)
  /\ nodal_counts' =
       [i \in 1..Len(fem_reconstruction_parameters.nodal_counts_file) |->
          saved_nodal_counts[fem_reconstruction_parameters.nodal_counts_file[i]]]
  /\ pc' = "trajectory"
  /\ UNCHANGED <<config, unit, all_experimental_counts, tol_reference_location, obs_index,
                 adjacent_cell_search, previous_position_cell, found_positions,
                 search, calls, exported>>

(***************************************************************************)
(* trajectory(): the tolerance, the measurement record and the loop over   *)
(* the observations.                                                       *)
(***************************************************************************)
RECURSIVE Pow2(_)
Pow2(n) == IF n = 0 THEN 1 ELSE 2 * Pow2(n - 1)

tolerance_of(p) ==
  IF p.mesh_type = "dealii"
    THEN RMul(RDiv(p.reactor_height, RInt(2 * p.z_subdivisions * Pow2(p.mesh_refinement))),
              <<23, 20>>)
    ELSE <<1, 200>>

\* read_detectors_counts: rows of n columns
RECURSIVE records_of(_, _)
records_of(len, n) ==
  IF len = 0 THEN {<<>>}
  ELSE {Append(r, SubSeq(row, 1, n)) : r \in records_of(len - 1, n), row \in measured_rows}

\* mutant: the detector count is taken from the measurement record
TrajectoryBegin_counts_columns ==
  /\ pc = "trajectory"
  /\ tol_reference_location' = tolerance_of(fem_reconstruction_parameters)
  /\ \E len \in 0..MaxObs :
       all_experimental_counts' \in records_of(len, n_detector)
  /\ n_detector' = IF all_experimental_counts' = <<>> THEN 0
                   ELSE Len(all_experimental_counts'[1])
  /\ adjacent_cell_search' = FALSE
  /\ pc' = "loop"
  /\ UNCHANGED <<config, unit, nodal_counts, obs_index, previous_position_cell,
                 found_positions, search, calls, exported>>

TrajectoryBegin ==
  /\ pc = "trajectory"
  /\ tol_reference_location' = tolerance_of(fem_reconstruction_parameters)
  /\ \E len \in 0..MaxObs :
       all_experimental_counts' \in records_of(len, n_detector)
  /\ adjacent_cell_search' = FALSE
  /\ pc' = "loop"
  /\ UNCHANGED <<config, unit, field_store, obs_index, previous_position_cell,
                 found_positions, search, calls, exported>>


\* mutant: the local search is chosen whenever an anchor exists, whatever the
\* outcome of the previous search
LoopNext_stale_anchor ==
  /\ pc = "loop"
  /\ IF obs_index < Len(all_experimental_counts)
       THEN /\ obs_index' = obs_index + 1
            /\ pc' = IF fem_reconstruction_parameters.search_type = "local"
                        /\ previous_position_cell # NoCell
                       THEN "local_search"
                       ELSE "global_search"
       ELSE /\ obs_index' = obs_index
            /\ pc' = "export_found_positions"
  /\ UNCHANGED <<config, unit, field_store, all_experimental_counts, tol_reference_location,
                 adjacent_cell_search, previous_position_cell, found_positions,
                 search, calls, exported>>

\* the head of the range-for over all_experimental_counts and the two ifs
\* that choose the search of the next observation
LoopNext ==
  /\ pc = "loop"
  /\ IF obs_index < Len(all_experimental_counts)
       THEN /\ obs_index' = obs_index + 1
            /\ pc' = IF fem_reconstruction_parameters.search_type = "local"
                        /\ adjacent_cell_search
                       THEN "local_search"
                       ELSE "global_search"
       ELSE /\ obs_index' = obs_index
            /\ pc' = "export_found_positions"
  /\ UNCHANGED <<config, unit, field_store, all_experimental_counts, tol_reference_location,
                 adjacent_cell_search, previous_position_cell, found_positions,
                 search, calls, exported>>

experimental_counts == all_experimental_counts[obs_index]

(***************************************************************************)
(* The per-cell body of the two searches: gather the vertex counts, solve, *)
(* check the extrapolation limit, compute the cost and the real location.  *)
(***************************************************************************)
count_from_all_detectors(c) ==
  [d \in 1..n_detector |->
     [v \in 1..n_vertices |-> nodal_counts[d][vertex_dof_index(c, v - 1)]]]

\* mutant: the differences are summed without being squared
cost_of_unsquared(vertex_count, reference_location, last_constraint, experimental_count, cost_function_type) ==
  LET count(d) ==
        RSub(RAdd(RMul(RInt(vertex_count[d][1]), last_constraint),
                  RSum([i \in 1..dim |->
                          RMul(RInt(vertex_count[d][i + 1]), reference_location[i])],
                       dim)),
             RInt(experimental_count[d]))
  IN  RSum([d \in 1..Len(vertex_count) |->
              IF cost_function_type = "absolute"
                THEN count(d)
                ELSE RMul(count(d), denom_of(experimental_count, d))],
           Len(vertex_count))

\* calculate_cost on the vertex counts of the cell: vertex_count[d][v + 1] is
\* nodal_counts[d][cell->vertex_dof_index(v, 0)]
cost_of(vertex_count, reference_location, last_constraint, experimental_count, cost_function_type) ==
  LET count(d) ==
        RSub(RAdd(RMul(RInt(vertex_count[d][1]), last_constraint),
                  RSum([i \in 1..dim |->
                          RMul(RInt(vertex_count[d][i + 1]), reference_location[i])],
                       dim)),
             RInt(experimental_count[d]))
      squared(d) == LET cnt == count(d) IN RMul(cnt, cnt)
  IN  RSum([d \in 1..Len(vertex_count) |->
              IF cost_function_type = "absolute"
                THEN squared(d)
                ELSE RMul(squared(d), denom_of(experimental_count, d))],
           Len(vertex_count))

\* mutant: a penalty equal to the tolerance is accepted
within_or_at_extrapolation_limit(norm_error_coordinates, tol) ==
  ~RLt(tol, norm_error_coordinates)

\* norm_error_coordinates < tol_reference_location
within_extrapolation_limit(norm_error_coordinates, tol) ==
  RLt(norm_error_coordinates, tol)

\* what the loop body computes for one cell before it compares the cost
cell_result(c, vertex_count, experimental_count, cost_function_type, tol) ==
  LET compared(reference_location, last_constraint_reference_location,
               norm_error_coordinates) ==
        [thrown |-> FALSE,
         within_limit |-> within_extrapolation_limit(norm_error_coordinates, tol),
         norm_error |-> norm_error_coordinates,
         calculated_cost |->
           cost_of(vertex_count, reference_location,
                   last_constraint_reference_location, experimental_count,
                   cost_function_type),
         real_location |-> real_location_of(c, reference_location)]
      constrained(reference_location, last_constraint_reference_location) ==
        compared(reference_location, last_constraint_reference_location,
                 calculate_reference_location_error(
                   reference_location, last_constraint_reference_location))
      solved(sol) ==
        IF sol.thrown
          THEN [thrown |-> TRUE, within_limit |-> FALSE, norm_error |-> RZero,
                calculated_cost |-> RZero, real_location |-> DefaultPoint]
          ELSE constrained(sol.reference_location,
                           last_constraint_of(sol.reference_location))
  IN  solved(assemble_matrix_and_rhs(vertex_count, experimental_count,
                                     cost_function_type))

\* cell_result tabulated once for the arguments the explored runs pass to it
tolerances == {<<1, 200>>, <<1, 4>>}
cell_result_arguments ==
  {<<c,
     [d \in 1..n |-> [v \in 1..n_vertices |->
                        saved_nodal_counts[d][vertex_dof_index(c, v - 1)]]],
     SubSeq(row, 1, n), mode, tol>> :
     c \in Cells, n \in 2..Len(saved_nodal_counts), row \in measured_rows,
     mode \in {"absolute", "relative"}, tol \in tolerances}
cell_result_table ==
  [a \in cell_result_arguments |-> cell_result(a[1], a[2], a[3], a[4], a[5])]

evaluate_cell(c, experimental_count, tol) ==
  LET lookup(a) == IF a \in cell_result_arguments
                     THEN cell_result_table[a]
                     ELSE cell_result(a[1], a[2], a[3], a[4], a[5])
  IN  lookup(<<c, count_from_all_detectors(c), experimental_count,
               fem_reconstruction_parameters.fem_cost_function, tol>>)


\* mutant: the cost is compared with DBL_MAX instead of the best cost so far
cost_is_below_dbl_max(calculated_cost, max_cost_function) ==
  RLt(calculated_cost, DBL_MAX)

\* mutant: a cost equal to the best cost so far replaces it
cost_is_lower_or_equal(calculated_cost, max_cost_function) ==
  ~RLt(max_cost_function, calculated_cost)

\* calculated_cost < max_cost_function
cost_is_lower(calculated_cost, max_cost_function) ==
  RLt(calculated_cost, max_cost_function)


\* mutant: the real location is computed before the extrapolation limit is
\* checked, so a best-effort position is kept when no cell is valid
global_search_cell_best_effort(c, experimental_count, tol, st) ==
  LET compare(r) ==
        IF r.thrown
          THEN [st EXCEPT !.thrown = TRUE]
          ELSE IF r.within_limit /\ RLt(r.calculated_cost, st.max_cost_function)
                 THEN [st EXCEPT !.max_cost_function = r.calculated_cost,
                                 !.position_found = TRUE,
                                 !.previous_position_cell = c,
                                 !.real_location = r.real_location]
                 ELSE IF st.position_found THEN st
                      ELSE [st EXCEPT !.real_location = r.real_location]
  IN  compare(evaluate_cell(c, experimental_count, tol))

\* The body of the cell loop of find_position_global_search.  st holds the
\* locals and the anchor: [max_cost_function, position_found, real_location,
\* previous_position_cell, thrown].
\* mutant: the global search records the position of its winning cell but
\* does not move the anchor to it
global_search_cell_keeps_anchor(c, experimental_count, tol, st) ==
  LET compare(r) ==
        IF r.thrown
          THEN [st EXCEPT !.thrown = TRUE]
          ELSE IF r.within_limit /\ cost_is_lower(r.calculated_cost, st.max_cost_function)
                 THEN [st EXCEPT !.max_cost_function = r.calculated_cost,
                                 !.position_found = TRUE,
                                 !.real_location = r.real_location]
                 ELSE st
  IN  compare(evaluate_cell(c, experimental_count, tol))

global_search_cell(c, experimental_count, tol, st) ==
  LET compare(r) ==
        IF r.thrown
          THEN [st EXCEPT !.thrown = TRUE]
          ELSE IF r.within_limit /\ cost_is_lower(r.calculated_cost, st.max_cost_function)
                 THEN [st EXCEPT !.max_cost_function = r.calculated_cost,
                                 !.position_found = TRUE,
                                 !.previous_position_cell = c,
                                 !.real_location = r.real_location]
                 ELSE st
  IN  compare(evaluate_cell(c, experimental_count, tol))


\* mutant: the local search does not move the anchor to its winning cell
local_search_cell_keeps_anchor(c, experimental_count, tol, st) ==
  LET compare(r) ==
        IF r.thrown
          THEN [st EXCEPT !.thrown = TRUE]
          ELSE IF r.within_limit /\ RLt(r.calculated_cost, st.max_cost_function)
                 THEN [st EXCEPT !.position_found = TRUE,
                                 !.max_cost_function = r.calculated_cost,
                                 !.real_location = r.real_location]
                 ELSE st
  IN  compare(evaluate_cell(c, experimental_count, tol))

\* The body of the loop over all_adjacent_cells of find_position_local_search.
local_search_cell(c, experimental_count, tol, st) ==
  LET compare(r) ==
        IF r.thrown
          THEN [st EXCEPT !.thrown = TRUE]
          ELSE IF r.within_limit /\ cost_is_lower(r.calculated_cost, st.max_cost_function)
                 THEN [st EXCEPT !.position_found = TRUE,
                                 !.max_cost_function = r.calculated_cost,
                                 !.previous_position_cell = c,
                                 !.real_location = r.real_location]
                 ELSE st
  IN  compare(evaluate_cell(c, experimental_count, tol))

cell_state ==
  [max_cost_function |-> search.max_cost_function,
   position_found |-> search.position_found,
   real_location |-> search.real_location,
   previous_position_cell |-> previous_position_cell,
   thrown |-> FALSE]

\* what a search call that has ended leaves in the history
call_record(fr, ret, entries) ==
  [kind |-> fr.kind, obs |-> obs_index, anchor |-> fr.anchor,
   candidates |-> {fr.cells[i] : i \in 1..Len(fr.cells)},
   visited |-> fr.visited, ret |-> ret, len_before |-> fr.len_before,
   entries |-> entries, end_dereferenced |-> fr.end_dereferenced]

(***************************************************************************)
(* find_position_global_search                                             *)
(***************************************************************************)
\* mutant: real_location is not a fresh local of the call but keeps the
\* position of the previous call
GlobalSearchBegin_keeps_location ==
  /\ pc = "global_search"
  /\ search' = [NoSearch EXCEPT !.kind = "global", !.cells = active_cells,
                                !.len_before = Len(found_positions),
                                !.real_location =
                                  IF found_positions = <<>> THEN DefaultPoint
                                  ELSE found_positions[Len(found_positions)]]
  /\ pc' = "global_cells"
  /\ UNCHANGED <<config, unit, field_store, all_experimental_counts, tol_reference_location,
                 obs_index, adjacent_cell_search, previous_position_cell,
                 found_positions, calls, exported>>

GlobalSearchBegin ==
  /\ pc = "global_search"
  /\ search' = [NoSearch EXCEPT !.kind = "global", !.cells = active_cells,
                                !.len_before = Len(found_positions)]
  /\ pc' = "global_cells"
  /\ UNCHANGED <<config, unit, field_store, all_experimental_counts, tol_reference_location,
                 obs_index, adjacent_cell_search, previous_position_cell,
                 found_positions, calls, exported>>

GlobalSearchCell ==
  /\ pc = "global_cells"
  /\ search.next <= Len(search.cells)
  /\ \E st \in {global_search_cell(search.cells[search.next], experimental_counts,
                                    tol_reference_location, cell_state)} :
     LET c == search.cells[search.next]
     IN  /\ search' = [search EXCEPT !.next = @ + 1,
                                     !.visited = Append(@, c),
                                     !.max_cost_function = st.max_cost_function,
                                     !.position_found = st.position_found,
                                     !.real_location = st.real_location]
         /\ previous_position_cell' = st.previous_position_cell
         /\ IF st.thrown
              THEN /\ pc' = "aborted"
                   /\ calls' = Append(calls, call_record(search', "throw", 0))
              ELSE /\ pc' = "global_cells"
                   /\ calls' = calls
  /\ UNCHANGED <<config, unit, field_store, all_experimental_counts, tol_reference_location,
                 obs_index, adjacent_cell_search, found_positions, exported>>

\* mutant: like the local search, the global search appends only what it found
GlobalSearchReturn_append_if_found ==
  /\ pc = "global_cells"
  /\ search.next > Len(search.cells)
  /\ found_positions' = IF search.position_found
                          THEN Append(found_positions, search.real_location)
                          ELSE found_positions
  /\ adjacent_cell_search' =
       IF fem_reconstruction_parameters.search_type = "local"
         THEN search.position_found
         ELSE adjacent_cell_search
  /\ calls' = Append(calls, call_record(search,
                                        IF search.position_found THEN "true" ELSE "false",
                                        IF search.position_found THEN 1 ELSE 0))
  /\ pc' = "loop"
  /\ UNCHANGED <<config, unit, field_store, all_experimental_counts, tol_reference_location,
                 obs_index, previous_position_cell, search, exported>>

\* mutant: the global search puts its position in front of the trajectory
GlobalSearchReturn_prepends ==
  /\ pc = "global_cells"
  /\ search.next > Len(search.cells)
  /\ found_positions' = <<search.real_location>> \o found_positions
  /\ adjacent_cell_search' =
       IF fem_reconstruction_parameters.search_type = "local"
         THEN search.position_found
         ELSE adjacent_cell_search
  /\ calls' = Append(calls, call_record(search, IF search.position_found THEN "true" ELSE "false", 1))
  /\ pc' = "loop"
  /\ UNCHANGED <<config, unit, field_store, all_experimental_counts, tol_reference_location,
                 obs_index, previous_position_cell, search, exported>>

GlobalSearchReturn ==
  /\ pc = "global_cells"
  /\ search.next > Len(search.cells)
  /\ found_positions' = Append(found_positions, search.real_location)
  /\ adjacent_cell_search' =
       IF fem_reconstruction_parameters.search_type = "local"
         THEN search.position_found
         ELSE adjacent_cell_search
  /\ calls' = Append(calls, call_record(search, IF search.position_found THEN "true" ELSE "false", 1))
  /\ pc' = "loop"
  /\ UNCHANGED <<config, unit, field_store, all_experimental_counts, tol_reference_location,
                 obs_index, previous_position_cell, search, exported>>

(***************************************************************************)
(* find_position_local_search                                              *)
(***************************************************************************)
\* the cells adjacent to the vertices of cell c
cells_adjacent_to(c) ==
  UNION {find_cells_adjacent_to_vertex(cell_vertex_index[c][v]) : v \in 1..n_vertices}

\* One pass of the loop over previous_adjacent_cells (cells, from index i) at
\* one proximity level.  st = [all_adjacent_cells, previous_main_cells,
\* end_dereferenced].  previous_main_cells.find(current_main_cell) is end()
\* when the cell is not in previous_main_cells; dereferencing end() reads an
\* indeterminate value, so the comparison may come out either way
\* (end_differs).  previous_main_cells is overwritten at the end of every
\* iteration.
RECURSIVE expand_from(_, _, _, _, _)
expand_from(cells, i, previous_adjacent_cells, end_differs, st) ==
  IF i > Len(cells) THEN st
  ELSE LET current_main_cell == cells[i]
           present == current_main_cell \in st.previous_main_cells
           differs == IF present THEN FALSE ELSE end_differs
       IN  expand_from(cells, i + 1, previous_adjacent_cells, end_differs,
             [all_adjacent_cells |->
                IF differs
                  THEN st.all_adjacent_cells \cup cells_adjacent_to(current_main_cell)
                  ELSE st.all_adjacent_cells,
              previous_main_cells |-> previous_adjacent_cells,
              end_dereferenced |-> st.end_dereferenced \/ ~present])

\* the loop over proximity_level = level .. search_proximity_level
RECURSIVE expand_levels(_, _, _, _)
expand_levels(level, last_level, end_differs, st) ==
  IF level > last_level THEN st
  ELSE expand_levels(level + 1, last_level, end_differs,
         expand_from(ordered(st.all_adjacent_cells), 1, st.all_adjacent_cells,
                     end_differs[level], st))

\* the candidate cells of find_position_local_search for the anchor `cell`
adjacent_cells_of(cell, search_proximity_level, end_differs) ==
  LET first == [all_adjacent_cells |-> {cell} \cup cells_adjacent_to(cell),
                previous_main_cells |-> {cell},
                end_dereferenced |-> FALSE]
  IN  IF search_proximity_level > 1
        THEN expand_levels(2, search_proximity_level, end_differs, first)
        ELSE first

LocalSearchBegin ==
  /\ pc = "local_search"
  /\ \E end_differs \in
          [2..fem_reconstruction_parameters.search_proximity_level -> BOOLEAN] :
       LET built == adjacent_cells_of(previous_position_cell,
                                      fem_reconstruction_parameters.search_proximity_level,
                                      end_differs)
       IN  search' = [NoSearch EXCEPT !.kind = "local",
                                      !.cells = ordered(built.all_adjacent_cells),
                                      !.anchor = previous_position_cell,
                                      !.len_before = Len(found_positions),
                                      !.end_dereferenced = built.end_dereferenced]
  /\ pc' = "local_cells"
  /\ UNCHANGED <<config, unit, field_store, all_experimental_counts, tol_reference_location,
                 obs_index, adjacent_cell_search, previous_position_cell,
                 found_positions, calls, exported>>

LocalSearchCell ==
  /\ pc = "local_cells"
  /\ search.next <= Len(search.cells)
  /\ \E st \in {local_search_cell(search.cells[search.next], experimental_counts,
                                    tol_reference_location, cell_state)} :
     LET c == search.cells[search.next]
     IN  /\ search' = [search EXCEPT !.next = @ + 1,
                                     !.visited = Append(@, c),
                                     !.max_cost_function = st.max_cost_function,
                                     !.position_found = st.position_found,
                                     !.real_location = st.real_location]
         /\ previous_position_cell' = st.previous_position_cell
         /\ IF st.thrown
              THEN /\ pc' = "aborted"
                   /\ calls' = Append(calls, call_record(search', "throw", 0))
              ELSE /\ pc' = "local_cells"
                   /\ calls' = calls
  /\ UNCHANGED <<config, unit, field_store, all_experimental_counts, tol_reference_location,
                 obs_index, adjacent_cell_search, found_positions, exported>>

\* mutant: a failed local search is not followed by the global search
LocalSearchReturn_no_fallback ==
  /\ pc = "local_cells"
  /\ search.next > Len(search.cells)
  /\ IF search.position_found
       THEN /\ found_positions' = Append(found_positions, search.real_location)
            /\ adjacent_cell_search' = TRUE
            /\ calls' = Append(calls, call_record(search, "true", 1))
       ELSE /\ found_positions' = found_positions
            /\ adjacent_cell_search' = FALSE
            /\ calls' = Append(calls, call_record(search, "false", 0))
  /\ pc' = "loop"
  /\ UNCHANGED <<config, unit, field_store, all_experimental_counts, tol_reference_location,
                 obs_index, previous_position_cell, search, exported>>

\* mutant: like the global search, the local search appends its real_location
\* whether or not a valid cell was found
LocalSearchReturn_always_appends ==
  /\ pc = "local_cells"
  /\ search.next > Len(search.cells)
  /\ found_positions' = Append(found_positions, search.real_location)
  /\ IF search.position_found
       THEN /\ adjacent_cell_search' = TRUE
            /\ calls' = Append(calls, call_record(search, "true", 1))
            /\ pc' = "loop"
       ELSE /\ adjacent_cell_search' = FALSE
            /\ calls' = Append(calls, call_record(search, "false", 1))
            /\ pc' = "global_search"
  /\ UNCHANGED <<config, unit, field_store, all_experimental_counts, tol_reference_location,
                 obs_index, previous_position_cell, search, exported>>

\* the end of find_position_local_search and the assignment of its result to
\* adjacent_cell_search; on false the driver goes on to the global search
LocalSearchReturn ==
  /\ pc = "local_cells"
  /\ search.next > Len(search.cells)
  /\ IF search.position_found
       THEN /\ found_positions' = Append(found_positions, search.real_location)
            /\ adjacent_cell_search' = TRUE
            /\ calls' = Append(calls, call_record(search, "true", 1))
            /\ pc' = "loop"
       ELSE /\ found_positions' = found_positions
            /\ adjacent_cell_search' = FALSE
            /\ calls' = Append(calls, call_record(search, "false", 0))
            /\ pc' = "global_search"
  /\ UNCHANGED <<config, unit, field_store, all_experimental_counts, tol_reference_location,
                 obs_index, previous_position_cell, search, exported>>

(***************************************************************************)
(* export_found_positions(): the name of the file, the header and one row  *)
(* per found position.  A file name is the sequence of its characters, a   *)
(* line of the file the sequence of the items streamed into it.            *)
(***************************************************************************)
\* std::string::npos, the all-ones size_t: npos + 1 wraps around to 0
npos == 0 - 1

\* std::string::find: the first index (from 0) at which pat occurs in str
find(str, pat) ==
  LET at == {i \in 0..(Len(str) - Len(pat)) : SubSeq(str, i + 1, i + Len(pat)) = pat}
  IN  IF at = {} THEN npos ELSE CHOOSE i \in at : \A j \in at : i <= j

\* std::string::find_last_of for one character
find_last_of(str, ch) ==
  LET at == {i \in 0..(Len(str) - 1) : str[i + 1] = ch}
  IN  IF at = {} THEN npos ELSE CHOOSE i \in at : \A j \in at : j <= i

\* std::string::substr(pos)
substr(str, pos) == SubSeq(str, pos + 1, Len(str))

dot_csv == <<".", "c", "s", "v">>
dot_dat == <<".", "d", "a", "t">>

\* the values of export_positions_file that are explored
export_file_names ==
  {<<"p">>, <<"p">> \o dot_csv, <<"p">> \o dot_dat, <<"p">> \o dot_dat \o <<"a">>}

RECURSIVE Pow10(_)
Pow10(n) == IF n = 0 THEN 1 ELSE 10 * Pow10(n - 1)

\* the digits of a / d by long division, until there are six significant
\* ones: m digits so far, r the remainder, k the number of decimals
RECURSIVE significant_digits(_, _, _, _)
significant_digits(m, r, d, k) ==
  IF m >= Pow10(5) THEN <<m, r, k>>
  ELSE significant_digits(m * 10 + ((r * 10) \div d), (r * 10) % d, d, k + 1)

\* operator<< of a std::ostream for a double at the default precision: the
\* decimal of six significant digits nearest to x (for |x| < 10^6), as the
\* number that the written text denotes
ostream_double(x) ==
  LET rounded(t) == Norm((IF x[1] < 0 THEN -1 ELSE 1)
                           * (IF 2 * t[2] >= x[2] THEN t[1] + 1 ELSE t[1]),
                         Pow10(t[3]))
  IN  IF x[1] = 0 THEN RZero
      ELSE rounded(significant_digits(Abs(x[1]) \div x[2], Abs(x[1]) % x[2], x[2], 0))

\* operator<< of deal.II for a Point<3>: the coordinates, a space between them
ostream_point(position) ==
  <<ostream_double(position[1]), " ", ostream_double(position[2]), " ",
    ostream_double(position[3])>>

\* the name of the file that is opened
export_filename(export_positions_file) ==
  IF find(export_positions_file, dot_csv) = npos /\ find(export_positions_file, dot_dat) = npos
    THEN export_positions_file \o dot_csv
    ELSE export_positions_file

\* the test that chooses the space-delimited format
has_dat_extension(filename) ==
  substr(filename, find_last_of(filename, ".") + 1) = dot_dat

\* mutant: the loop over the positions starts at the second one
export_lines_from_second(filename, positions) ==
  <<"position_x,position_y,position_z ">>
    \o [i \in 1..(Len(positions) - 1) |->
          <<ostream_double(positions[i + 1][1]), ",",
            ostream_double(positions[i + 1][2]), ",",
            ostream_double(positions[i + 1][3]), ",">>]

\* the lines written to the file, the header first
export_lines(filename, positions) ==
  IF has_dat_extension(filename)
    THEN <<"position_x position_y position_z ">>
           \o [i \in 1..Len(positions) |-> ostream_point(positions[i])]
    ELSE <<"position_x,position_y,position_z ">>
           \o [i \in 1..Len(positions) |->
                 <<ostream_double(positions[i][1]), ",",
                   ostream_double(positions[i][2]), ",",
                   ostream_double(positions[i][3]), ",">>]

\* the file is the same whatever parameters.verbosity is: the verbose
\* branches write the same lines and echo the positions to the terminal
ExportFoundPositions ==
  /\ pc = "export_found_positions"
  /\ \E export_positions_file \in export_file_names :
       exported' =
         [filename |-> export_filename(export_positions_file),
          lines |-> export_lines(export_filename(export_positions_file), found_positions),
          export_positions_file |-> export_positions_file]
  /\ pc' = "done"
  /\ UNCHANGED <<config, unit, field_store, all_experimental_counts, tol_reference_location,
                 obs_index, adjacent_cell_search, previous_position_cell,
                 found_positions, search, calls>>

Next ==
  \/ LoadFromCheckpoint
  \/ TrajectoryBegin
  \/ LoopNext
  \/ GlobalSearchBegin
  \/ GlobalSearchCell
  \/ GlobalSearchReturn
  \/ LocalSearchBegin
  \/ LocalSearchCell
  \/ LocalSearchReturn
  \/ ExportFoundPositions

Spec == Init /\ [][Next]_vars

(***************************************************************************)
(* The member functions called on their own, on arguments drawn from       *)
(* bounded sets: the object is constructed, no run is in progress.         *)
(***************************************************************************)
run_state ==
  <<pc, n_detector, nodal_counts, all_experimental_counts, tol_reference_location,
    obs_index, adjacent_cell_search, previous_position_cell, found_positions,
    search, calls, exported>>

UnitInit ==
  /\ fem_reconstruction_parameters \in
       [search_type : {"local"},
        search_proximity_level : {1},
        fem_cost_function : {"absolute", "relative"},
        mesh_type : {"gmsh"},
        z_subdivisions : {1},
        mesh_refinement : {1},
        reactor_height : {<<20, 23>>},
        nodal_counts_file : {<<>>}]
  /\ active_cells \in cell_orders
  /\ pc = "constructed"
  /\ n_detector = 0
  /\ nodal_counts = <<>>
  /\ all_experimental_counts = <<>>
  /\ tol_reference_location = RZero
  /\ obs_index = 0
  /\ adjacent_cell_search = FALSE
  /\ previous_position_cell = NoCell
  /\ found_positions = <<>>
  /\ search = NoSearch
  /\ calls = <<>>
  /\ exported = <<>>
  /\ unit = NoUnit

(***************************************************************************)
(* checkpoint() and load_from_checkpoint() on the files of a directory.    *)
(* A file is a sequence of archive tokens; a directory maps the names of   *)
(* its files to their contents.                                            *)
(***************************************************************************)
\* the decimal digits of n
RECURSIVE digits_of(_)
digits_of(n) == IF n < 10 THEN <<n>> ELSE Append(digits_of(n \div 10), n % 10)

\* Utilities::to_string(number, digits): padded with zeros to `digits` digits
RECURSIVE to_string(_, _)
to_string(number, digits) ==
  IF Len(digits_of(number)) >= digits THEN digits_of(number)
  ELSE <<0>> \o to_string(number, digits - 1)

dof_handler_filename == <<"temp_dof_handler.dof">>

\* mutant: the detector number is left out of the file name
nodal_counts_filename_unnumbered(i) ==
  <<"temp_nodal_counts_detector">> \o <<".counts">>

\* "temp_nodal_counts_detector" + Utilities::to_string(i, 2) + ".counts"
nodal_counts_filename(i) ==
  <<"temp_nodal_counts_detector">> \o to_string(i, 2) \o <<".counts">>

\* Vector<double>::save and load on a text archive: the size, then the values
vector_save(v) == <<Len(v)>> \o v
vector_load(ar) == [k \in 1..ar[1] |-> ar[k + 1]]

\* the dof indices of the vertices of every cell, as dof_handler holds them
dof_table == [c \in Cells |-> [v \in 1..n_vertices |-> vertex_dof_index(c, v - 1)]]

\* DoFHandler::save and load: the number of cells, then the dof indices cell by cell
RECURSIVE dof_handler_save(_, _)
dof_handler_save(table, n_cells) ==
  IF n_cells = 0 THEN <<>>
  ELSE dof_handler_save(table, n_cells - 1) \o table[n_cells]

dof_handler_load(ar) ==
  [c \in 1..ar[1] |->
     [v \in 1..n_vertices |-> ar[1 + (c - 1) * n_vertices + v]]]

\* write file `name` with contents `ar` in directory `dir`
write_file(dir, name, ar) ==
  [f \in DOMAIN dir \cup {name} |-> IF f = name THEN ar ELSE dir[f]]

\* the loop of checkpoint() over the detectors i .. n_detector - 1
RECURSIVE save_nodal_counts(_, _, _)
save_nodal_counts(dir, fields, i) ==
  IF i >= Len(fields) THEN dir
  ELSE save_nodal_counts(
         write_file(dir, nodal_counts_filename(i), vector_save(fields[i + 1])),
         fields, i + 1)

\* checkpoint(): the directory after the dof handler and the n_detector
\* fields of nodal_counts have been written to it
checkpoint(dir, table, fields) ==
  save_nodal_counts(
    write_file(dir, dof_handler_filename,
               <<Len(table)>> \o dof_handler_save(table, Len(table))),
    fields, 0)

\* load_from_checkpoint(): what it leaves in n_detector, nodal_counts and
\* dof_handler, reading the files the parameters name
load_from_checkpoint(dir, dof_handler_file, nodal_counts_file) ==
  [n_detector |-> Len(nodal_counts_file),
   dof_handler |-> dof_handler_load(dir[dof_handler_file]),
   nodal_counts |-> [i \in 1..Len(nodal_counts_file) |->
                       vector_load(dir[nodal_counts_file[i]])]]

\* the field stores given to checkpoint(): 1 .. MaxSaved detectors, each with
\* one of the fields of saved_nodal_counts
RECURSIVE fields_of(_)
fields_of(n) ==
  IF n = 0 THEN {<<>>}
  ELSE {Append(fs, saved_nodal_counts[k]) :
          fs \in fields_of(n - 1), k \in 1..Len(saved_nodal_counts)}

\* the names checkpoint() gives to the files of n detectors, by detector
written_names(n) == [i \in 1..n |-> nodal_counts_filename(i - 1)]
reversed(seq) == [i \in 1..Len(seq) |-> seq[Len(seq) + 1 - i]]

\* checkpoint() into an empty directory, then load_from_checkpoint() with the
\* written files named in the parameters, by detector or in reverse
CheckpointThenLoad ==
  /\ unit = NoUnit
  /\ \E n \in 1..MaxSaved : \E fields \in fields_of(n) :
       \E names \in {written_names(n), reversed(written_names(n))} :
         \E dir \in {checkpoint(<<>>, dof_table, fields)} :
           unit' = [op |-> "checkpoint",
                    n_detector |-> n,
                    nodal_counts |-> fields,
                    dof_handler |-> dof_table,
                    files |-> dir,
                    nodal_counts_file |-> names,
                    loaded |-> load_from_checkpoint(dir, dof_handler_filename, names)]
  /\ UNCHANGED <<config, run_state>>

(***************************************************************************)
(* assemble_matrix_and_rhs() on the vertex counts of one cell.             *)
(***************************************************************************)
\* a single cell with two detectors and an observation of it
scenario_vertex_count == << <<10, 20, 20, 20>>, <<5, 5, 15, 15>> >>
scenario_experimental_count == <<15, 10>>

\* the vertex counts of cell c in the first n saved fields
saved_vertex_count(c, n) ==
  [d \in 1..n |-> [v \in 1..n_vertices |->
                     saved_nodal_counts[d][vertex_dof_index(c, v - 1)]]]

\* every choice of the vertex counts of one and of two detectors among a few
\* values, with an observation
count_values == {0, 1, 3}
few_detector_inputs ==
  UNION {{<<vc, SubSeq(<<1, 2>>, 1, n)>> : vc \in [1..n -> [1..n_vertices -> count_values]]} :
           n \in 1..2}

\* the pairs <<vertex_count, experimental_count>> the function is called on
cell_inputs ==
  {<<scenario_vertex_count, scenario_experimental_count>>}
    \cup {<<saved_vertex_count(c, n), SubSeq(row, 1, n)>> :
            c \in Cells, n \in 0..Len(saved_nodal_counts), row \in measured_rows}

AssembleMatrixAndRhs ==
  /\ unit = NoUnit
  /\ \E input \in cell_inputs \cup few_detector_inputs :
       \E sol \in {assemble_matrix_and_rhs(
                     input[1], input[2],
                     fem_reconstruction_parameters.fem_cost_function)} :
         unit' = [op |-> "assemble_matrix_and_rhs",
                  vertex_count |-> input[1],
                  experimental_count |-> input[2],
                  cost_function_type |->
                    fem_reconstruction_parameters.fem_cost_function,
                  sys_matrix |->
                    sys_matrix_of(input[1], input[2],
                                  fem_reconstruction_parameters.fem_cost_function),
                  sys_rhs |->
                    sys_rhs_of(input[1], input[2],
                               fem_reconstruction_parameters.fem_cost_function),
                  thrown |-> sol.thrown,
                  reference_location |-> sol.reference_location]
  /\ UNCHANGED <<config, run_state>>

(***************************************************************************)
(* calculate_reference_location_error() on reference coordinates inside,   *)
(* on the border of and outside the reference cell.                        *)
(***************************************************************************)
reference_coordinates == {<<-1, 2>>, <<0, 1>>, <<1, 4>>, <<1, 1>>, <<3, 2>>}
reference_locations ==
  {<<x, y, z>> : x \in reference_coordinates, y \in reference_coordinates,
                 z \in reference_coordinates}

CalculateReferenceLocationError ==
  /\ unit = NoUnit
  /\ \E reference_location \in reference_locations :
       unit' = [op |-> "calculate_reference_location_error",
                reference_location |-> reference_location,
                last_constraint |-> last_constraint_of(reference_location),
                norm_error_coordinates |->
                  calculate_reference_location_error(
                    reference_location, last_constraint_of(reference_location))]
  /\ UNCHANGED <<config, run_state>>

(***************************************************************************)
(* calculate_cost() for the vertex counts of one cell, at reference        *)
(* coordinates on the vertices, inside and outside of the cell, for the    *)
(* measured rows and for the counts the fields take at the coordinates.    *)
(***************************************************************************)
cost_coordinates == {<<0, 1>>, <<1, 4>>, <<1, 1>>}
cost_locations ==
  {<<x, y, z>> : x \in cost_coordinates, y \in cost_coordinates,
                 z \in cost_coordinates}

\* the value of a field with vertex counts vertex_count_d at reference_location
field_value(vertex_count_d, reference_location) ==
  RAdd(RMul(RInt(vertex_count_d[1]), last_constraint_of(reference_location)),
       RSum([i \in 1..dim |->
               RMul(RInt(vertex_count_d[i + 1]), reference_location[i])],
            dim))

\* the observations calculate_cost is called on for a cell and a location:
\* the measured rows, and the field values at the location when they are
\* positive whole counts
cost_observations(vertex_count, reference_location) ==
  {SubSeq(row, 1, Len(vertex_count)) : row \in measured_rows}
    \cup {obs \in {[d \in 1..Len(vertex_count) |->
                      field_value(vertex_count[d], reference_location)[1]]} :
            \A d \in 1..Len(vertex_count) :
              /\ field_value(vertex_count[d], reference_location)[2] = 1
              /\ obs[d] > 0}

CalculateCost ==
  /\ unit = NoUnit
  /\ \E input \in cell_inputs : \E reference_location \in cost_locations :
       \E experimental_count \in cost_observations(input[1], reference_location) :
         unit' = [op |-> "calculate_cost",
                  vertex_count |-> input[1],
                  reference_location |-> reference_location,
                  last_constraint |-> last_constraint_of(reference_location),
                  experimental_count |-> experimental_count,
                  cost_function_type |->
                    fem_reconstruction_parameters.fem_cost_function,
                  cost |-> cost_of(input[1], reference_location,
                                   last_constraint_of(reference_location),
                                   experimental_count,
                                   fem_reconstruction_parameters.fem_cost_function)]
  /\ UNCHANGED <<config, run_state>>

(***************************************************************************)
(* The candidate cells of find_position_local_search for one anchor, built *)
(* at proximity level L - 1 and at level L.                                *)
(***************************************************************************)
BuildCandidates ==
  /\ unit = NoUnit
  /\ \E cell \in Cells : \E level \in 2..MaxHops :
       \E lower_end_differs \in [2..(level - 1) -> BOOLEAN] :
         \E end_differs \in [2..level -> BOOLEAN] :
           unit' = [op |-> "adjacent_cells",
                    cell |-> cell,
                    search_proximity_level |-> level,
                    lower_end_differs |-> lower_end_differs,
                    end_differs |-> end_differs,
                    lower |-> adjacent_cells_of(cell, level - 1, lower_end_differs),
                    upper |-> adjacent_cells_of(cell, level, end_differs)]
  /\ UNCHANGED <<config, run_state>>


UnitNext ==
  \/ CheckpointThenLoad
  \/ AssembleMatrixAndRhs
  \/ CalculateReferenceLocationError
  \/ CalculateCost
  \/ BuildCandidates

UnitSpec == UnitInit /\ [][UnitNext]_vars

(***************************************************************************)
(* ParticleWallJKRForce<dim>: calculate_particle_wall_contact_force and    *)
(* calculate_particle_floating_wall_contact_force, for dim = 2 and 3.  A   *)
(* contact holds what the routines read and write of a contact_information *)
(* record: the particle, its diameter dp, the distance of its centre from  *)
(* the wall, and the stored normal_overlap, tangential_overlap (a          *)
(* Tensor<1, 3>) and boundary_id.  The force and the torque of a particle  *)
(* are kept as the sequence of the contacts that were applied to them.     *)
(***************************************************************************)
space_dims == {2, 3}

Tensor3(x, y, z) == <<RInt(x), RInt(y), RInt(z)>>

\* the values of tangential_overlap that contacts hold
tangential_overlaps == {Tensor3(0, 0, 0), Tensor3(1, 2, 0), Tensor3(1, 2, 3)}

\* the contacts the routines are called on: a particle of diameter 2 at the
\* distance 1/2, 1 or 3/2 from the wall
contact_infos ==
  [particle : {0, 1},
   dp : {RInt(2)},
   distance : {<<1, 2>>, ROne, <<3, 2>>},
   normal_overlap : {<<1, 4>>},
   tangential_overlap : tangential_overlaps,
   boundary_id : {1}]

contact_lists ==
  {<<c1, c2>> : c1 \in {c \in contact_infos : c.particle = 0}, c2 \in contact_infos}

\* dp * 0.5 - the distance of the particle from the wall
normal_overlap_of(contact_information) ==
  RSub(RMul(contact_information.dp, <<1, 2>>), contact_information.distance)

\* the else branch: normal_overlap = 0 and tangential_overlap[d] = 0 for d < dim
reset_contact(space_dim, contact_information) ==
  [contact_information EXCEPT
     !.normal_overlap = RZero,
     !.tangential_overlap =
        [d \in 1..3 |-> IF d <= space_dim THEN RZero ELSE @[d]]]

\* the loop body for contact k: st = [contacts, force, torque, force_on_walls];
\* updated is the tangential overlap that update_contact_information and
\* calculate_jkr_contact_force_and_torque leave in a contact with overlap
particle_wall_contact(space_dim, k, updated, st) ==
  LET contact_information == st.contacts[k]
      branch(normal_overlap) ==
        IF RGt(normal_overlap, RZero)
          THEN [contacts |->
                  [st.contacts EXCEPT
                     ![k] = [@ EXCEPT !.normal_overlap = normal_overlap,
                                      !.tangential_overlap = updated[k]]],
                force |-> [st.force EXCEPT
                             ![contact_information.particle] = Append(@, k)],
                torque |-> [st.torque EXCEPT
                              ![contact_information.particle] = Append(@, k)],
                force_on_walls |-> Append(st.force_on_walls, k)]
          ELSE [st EXCEPT !.contacts[k] = reset_contact(space_dim, contact_information)]
  IN  branch(normal_overlap_of(contact_information))

\* the loop body of the floating-wall routine for contact k
particle_floating_wall_contact(space_dim, k, updated, pass_distance_check, solid_counter, st) ==
  LET with_boundary(after) ==
        IF Len(after.force_on_walls) > Len(st.force_on_walls)
          THEN [after EXCEPT !.contacts[k].boundary_id = solid_counter]
          ELSE after
  IN  IF pass_distance_check[k]
        THEN with_boundary(particle_wall_contact(space_dim, k, updated, st))
        ELSE st

RECURSIVE wall_contacts_from(_, _, _, _)
wall_contacts_from(space_dim, k, updated, st) ==
  IF k > Len(st.contacts) THEN st
  ELSE wall_contacts_from(space_dim, k + 1, updated,
                          particle_wall_contact(space_dim, k, updated, st))

RECURSIVE floating_wall_contacts_from(_, _, _, _, _)
floating_wall_contacts_from(space_dim, k, updated, pass_distance_check, st) ==
  IF k > Len(st.contacts) THEN st
  ELSE floating_wall_contacts_from(
         space_dim, k + 1, updated, pass_distance_check,
         particle_floating_wall_contact(space_dim, k, updated, pass_distance_check, 0, st))

\* the contacts, and the force and torque vectors before the loop
begin_contacts(contacts) ==
  [contacts |-> contacts,
   force |-> [particle \in {0, 1} |-> <<>>],
   torque |-> [particle \in {0, 1} |-> <<>>],
   force_on_walls |-> <<>>]

CalculateParticleWallContactForce ==
  /\ unit = NoUnit
  /\ \E space_dim \in space_dims : \E contacts \in contact_lists :
       \E updated \in [1..Len(contacts) -> tangential_overlaps \ {Tensor3(0, 0, 0)}] :
         \E st \in {wall_contacts_from(space_dim, 1, updated, begin_contacts(contacts))} :
           unit' = [op |-> "calculate_particle_wall_contact_force",
                    space_dim |-> space_dim,
                    before |-> contacts,
                    pass_distance_check |-> [k \in 1..Len(contacts) |-> TRUE],
                    contacts |-> st.contacts,
                    force |-> st.force,
                    torque |-> st.torque,
                    force_on_walls |-> st.force_on_walls]
  /\ UNCHANGED <<config, run_state>>

CalculateParticleFloatingWallContactForce ==
  /\ unit = NoUnit
  /\ \E space_dim \in space_dims : \E contacts \in contact_lists :
       \E updated \in [1..Len(contacts) -> tangential_overlaps \ {Tensor3(0, 0, 0)}] :
         \E pass_distance_check \in [1..Len(contacts) -> BOOLEAN] :
           \E st \in {floating_wall_contacts_from(space_dim, 1, updated, pass_distance_check,
                                                  begin_contacts(contacts))} :
             unit' = [op |-> "calculate_particle_floating_wall_contact_force",
                      space_dim |-> space_dim,
                      before |-> contacts,
                      pass_distance_check |-> pass_distance_check,
                      contacts |-> st.contacts,
                      force |-> st.force,
                      torque |-> st.torque,
                      force_on_walls |-> st.force_on_walls]
  /\ UNCHANGED <<config, run_state>>

\* the force routines are called on their own, the reconstruction idle
WallInit ==
  /\ UnitInit
  /\ active_cells = <<1, 2, 3, 4, 5>>
  /\ fem_reconstruction_parameters.fem_cost_function = "absolute"

WallNext ==
  \/ CalculateParticleWallContactForce
  \/ CalculateParticleFloatingWallContactForce

WallSpec == WallInit /\ [][WallNext]_vars

(***************************************************************************)
(* Notions the properties are stated with.                                 *)
(***************************************************************************)
SearchStates == {"local_search", "local_cells", "global_search", "global_cells"}
LastCall == calls[Len(calls)]
CellsOf(seq) == {seq[i] : i \in 1..Len(seq)}

\* cell c passes the validity check for an observation
ValidIn(c, experimental_count) ==
  LET r == evaluate_cell(c, experimental_count, tol_reference_location)
  IN  ~r.thrown /\ r.within_limit
ValidCells(S, experimental_count) == {c \in S : ValidIn(c, experimental_count)}
CostIn(c, experimental_count) ==
  evaluate_cell(c, experimental_count, tol_reference_location).calculated_cost
PositionIn(c, experimental_count) ==
  evaluate_cell(c, experimental_count, tol_reference_location).real_location

\* the valid cells of S of minimum cost
BestCells(S, experimental_count) ==
  LET cheapest(V, cost) == {c \in V : \A c2 \in V : ~RLt(cost[c2], cost[c])}
      costed(V) == cheapest(V, [c \in V |-> CostIn(c, experimental_count)])
  IN  costed(ValidCells(S, experimental_count))

\* the cells within L vertex-adjacency hops of the cells of S
RECURSIVE WithinHops(_, _)
WithinHops(S, L) ==
  IF L = 0 THEN S
  ELSE WithinHops(S \cup UNION {cells_adjacent_to(c) : c \in S}, L - 1)

\* the loop of trajectory() is between two observations, or has ended
BetweenObservations == {"loop", "export_found_positions"}

\* the calls that appended an entry, in order
AppendingCalls == SelectSeq(calls, LAMBDA r : r.entries = 1)

(***************************************************************************)
(* C1: between observations the trajectory holds exactly one entry per     *)
(* observation processed so far, and while the search of observation k     *)
(* runs (or after it ended the run) it holds the k - 1 entries of the      *)
(* observations before it: none is skipped, none is recorded twice.        *)
(***************************************************************************)
C1_OneEntryPerObservation ==
  Len(found_positions) =
    IF pc \in SearchStates \cup {"aborted"} THEN obs_index - 1 ELSE obs_index

\* three observations done in local-first mode, a failed local search and a
\* successful local search among them
C1_Witness ==
  /\ pc = "loop"
  /\ obs_index = 3
  /\ fem_reconstruction_parameters.search_type = "local"
  /\ \E i \in 1..Len(calls) : calls[i].kind = "local" /\ calls[i].ret = "false"
  /\ \E i \in 1..Len(calls) : calls[i].kind = "local" /\ calls[i].ret = "true"

(***************************************************************************)
(* C2: a local search that fails for an observation is followed by the     *)
(* global search of the same observation before any other observation is   *)
(* touched, and the i-th trajectory entry is the one produced by the i-th  *)
(* observation (from its counts, by the call that ran for it; the entries  *)
(* are compared with the positions between two observations and when the  *)
(* loop has ended).                                                        *)
(***************************************************************************)
C2_FallbackInOrder ==
  /\ \A i \in 1..Len(calls) :
       (calls[i].kind = "local" /\ calls[i].ret = "false") =>
         IF i < Len(calls)
           THEN calls[i + 1].kind = "global" /\ calls[i + 1].obs = calls[i].obs
           ELSE pc \in {"global_search", "global_cells"} /\ obs_index = calls[i].obs
  /\ LET in_order(appending) ==
           /\ Len(appending) = Len(found_positions)
           /\ \A i \in 1..Len(appending) :
                /\ appending[i].obs = i
                /\ appending[i].len_before = i - 1
                /\ (appending[i].ret = "true" /\ pc \in BetweenObservations) =>
                     \E c \in ValidCells(appending[i].candidates,
                                         all_experimental_counts[i]) :
                       found_positions[i] = PositionIn(c, all_experimental_counts[i])
     IN  in_order(AppendingCalls)

\* observation 2 failed its local search, fell back to the global search, and
\* three entries are in place
C2_Witness ==
  /\ pc = "loop"
  /\ Len(found_positions) = 3
  /\ \E i \in 1..(Len(calls) - 1) :
       /\ calls[i].kind = "local" /\ calls[i].ret = "false" /\ calls[i].obs = 2
       /\ calls[i + 1].kind = "global" /\ calls[i + 1].ret = "true"

(***************************************************************************)
(* C3: in local-first mode the local search is attempted for observation k *)
(* exactly when the search of observation k - 1 (local, or its global      *)
(* fallback) succeeded, so never for the first observation; in global-only *)
(* mode it is never attempted.                                             *)
(***************************************************************************)
LocalAttempted(k) ==
  \/ \E i \in 1..Len(calls) : calls[i].kind = "local" /\ calls[i].obs = k
  \/ obs_index = k /\ pc \in {"local_search", "local_cells"}

Succeeded(k) ==
  \E i \in 1..Len(calls) : calls[i].obs = k /\ calls[i].ret = "true"

C3_LocalIffPreviousSucceeded ==
  \A k \in 1..obs_index :
    LocalAttempted(k) <=>
      /\ fem_reconstruction_parameters.search_type = "local"
      /\ k > 1
      /\ Succeeded(k - 1)

\* local-first: the local search runs for observation 2 after a success, and
\* not for observation 3 after observation 2 failed both searches
C3_Witness ==
  /\ fem_reconstruction_parameters.search_type = "local"
  /\ obs_index = 3
  /\ pc = "global_cells"
  /\ LocalAttempted(2)
  /\ ~Succeeded(2)
  /\ ~LocalAttempted(3)

(***************************************************************************)
(* C4: when the local search is invoked, the anchor it is given is set and *)
(* is a minimum-cost valid cell of the search that succeeded for the       *)
(* previous observation; after a failed global search the next observation *)
(* does not go to the local search.                                        *)
(***************************************************************************)
C4_AnchorIsPreviousWinner ==
  /\ pc = "local_search" =>
       /\ previous_position_cell # NoCell
       /\ Len(calls) > 0
       /\ LastCall.obs = obs_index - 1
       /\ LastCall.ret = "true"
       /\ previous_position_cell \in
            BestCells(LastCall.candidates, all_experimental_counts[obs_index - 1])
  /\ pc = "local_cells" => search.anchor # NoCell
  /\ (Len(calls) > 0 /\ LastCall.kind = "global" /\ LastCall.ret = "false") =>
       pc \notin {"local_search", "local_cells"}

\* the local search is invoked with an anchor that an earlier local search
\* moved away from the cell the first global search had found
C4_Witness ==
  /\ pc = "local_search"
  /\ LastCall.kind = "local"
  /\ LastCall.ret = "true"
  /\ previous_position_cell # LastCall.anchor

(***************************************************************************)
(* C5: when the global search has visited all cells, it has found a        *)
(* position exactly if some cell is valid, and then the cost it selected   *)
(* is the minimum over the valid cells and the cell it selected is one of  *)
(* minimum cost (the one, if unique), whatever the visitation order.       *)
(***************************************************************************)
GlobalSearchDone == pc = "global_cells" /\ search.next > Len(search.cells)

C5_GlobalSelectsMinimum ==
  GlobalSearchDone =>
    LET best == BestCells(Cells, experimental_counts)
    IN  /\ search.position_found <=> ValidCells(Cells, experimental_counts) # {}
        /\ search.position_found =>
             /\ previous_position_cell \in best
             /\ search.max_cost_function =
                  CostIn(previous_position_cell, experimental_counts)
             /\ search.real_location =
                  PositionIn(previous_position_cell, experimental_counts)

\* several valid cells of different costs, the cheapest not the first valid
\* one in the visitation order
C5_Witness ==
  /\ GlobalSearchDone
  /\ search.position_found
  /\ \E c \in ValidCells(Cells, experimental_counts) :
       /\ c # previous_position_cell
       /\ RLt(search.max_cost_function, CostIn(c, experimental_counts))
       /\ \E i, j \in 1..Len(active_cells) :
            i < j /\ active_cells[i] = c /\ active_cells[j] = previous_position_cell

(***************************************************************************)
(* C6: the cells the local search evaluates are exactly the cells within   *)
(* search_proximity_level vertex-adjacency hops of the anchor, each once.  *)
(***************************************************************************)
C6_CandidatesAreTheHopBall ==
  pc = "local_cells" =>
    /\ CellsOf(search.cells) =
         WithinHops({search.anchor},
                    fem_reconstruction_parameters.search_proximity_level)
    /\ Cardinality(CellsOf(search.cells)) = Len(search.cells)

(***************************************************************************)
(* C7: a local search that ended has not thrown; if some cell of its       *)
(* candidate set was valid it returned true and the trajectory is one      *)
(* entry longer than before the call; otherwise it returned false and the  *)
(* trajectory and the anchor are as they were before the call.             *)
(***************************************************************************)
C7_LocalSearchContract ==
  (Len(calls) > 0 /\ LastCall.kind = "local" /\ pc \in {"loop", "global_search"}) =>
    LET r == LastCall
        valid == ValidCells(r.candidates, all_experimental_counts[r.obs])
    IN  /\ r.visited = search.cells
        /\ IF valid # {}
             THEN /\ r.ret = "true"
                  /\ pc = "loop"
                  /\ Len(found_positions) = r.len_before + 1
             ELSE /\ r.ret = "false"
                  /\ pc = "global_search"
                  /\ Len(found_positions) = r.len_before
                  /\ previous_position_cell = r.anchor

\* a local search has just returned false ...
C7_WitnessFalse ==
  /\ pc = "global_search"
  /\ Len(calls) > 0
  /\ LastCall.kind = "local"
  /\ LastCall.ret = "false"

\* ... and, in another run, true with a candidate set of which some cells
\* are valid and some are not
C7_Witness ==
  /\ pc = "loop"
  /\ Len(calls) > 0
  /\ LastCall.kind = "local"
  /\ LastCall.ret = "true"
  /\ ValidCells(LastCall.candidates, all_experimental_counts[LastCall.obs])
       \notin {{}, LastCall.candidates}

(***************************************************************************)
(* C8: every call of the global search visits each mesh cell exactly once, *)
(* leaves the trajectory one entry longer, and returns true exactly if     *)
(* some cell passed the validity check.                                    *)
(***************************************************************************)
C8_GlobalSearchContract ==
  (Len(calls) > 0 /\ LastCall.kind = "global" /\ pc \in {"loop", "aborted"}) =>
    LET r == LastCall
    IN  /\ Len(r.visited) = Cardinality(Cells)
        /\ CellsOf(r.visited) = Cells
        /\ Len(found_positions) = r.len_before + 1
        /\ r.ret = "true" <=>
             ValidCells(Cells, all_experimental_counts[r.obs]) # {}

\* what holds of the calls of the global search that return
C8_ReturningGlobalSearch ==
  (Len(calls) > 0 /\ LastCall.kind = "global" /\ pc = "loop") =>
    LET r == LastCall
    IN  /\ Len(r.visited) = Cardinality(Cells)
        /\ CellsOf(r.visited) = Cells
        /\ Len(found_positions) = r.len_before + 1
        /\ r.ret = "true" <=>
             ValidCells(Cells, all_experimental_counts[r.obs]) # {}

(***************************************************************************)
(* C9 as claimed: the entry recorded by a global search that found no      *)
(* valid cell is the position computed from one of the cells it examined,  *)
(* and the run is not aborted.                                             *)
(***************************************************************************)
FailedGlobalCalls ==
  {i \in 1..Len(calls) : calls[i].kind = "global" /\ calls[i].ret = "false"}

C9_BestEffortPosition ==
  \A i \in FailedGlobalCalls :
    /\ \E c \in CellsOf(calls[i].visited) :
         found_positions[calls[i].len_before + 1] =
           PositionIn(c, all_experimental_counts[calls[i].obs])
    /\ (i = Len(calls) => pc # "aborted")

(***************************************************************************)
(* C9, what the code does: the entry recorded by a global search that     *)
(* returns without a valid cell is the default-constructed point (the      *)
(* origin), and                                                            *)
(* the driver goes on: what runs next is the search of the next            *)
(* observation, or the export.                                             *)
(***************************************************************************)
C9_DefaultPositionAndProceed ==
  \A i \in FailedGlobalCalls :
    /\ found_positions[calls[i].len_before + 1] = DefaultPoint
    /\ IF i < Len(calls)
         THEN calls[i + 1].obs = calls[i].obs + 1
         ELSE \/ pc \in {"loop", "export_found_positions", "done"}
                 /\ obs_index = calls[i].obs
              \/ pc \in SearchStates /\ obs_index = calls[i].obs + 1

\* a global search found no valid cell and the next observation has been
\* searched after it
C9_Witness ==
  \E i \in FailedGlobalCalls :
    /\ i < Len(calls)
    /\ calls[i + 1].ret = "true"
    /\ found_positions[calls[i].len_before + 1] = DefaultPoint
    /\ Len(found_positions) = calls[i].len_before + 2

(***************************************************************************)
(* C10: when the number of nodal count files differs from the number of    *)
(* detectors the checkpoint was written for, the run aborts before any     *)
(* search executes and no trajectory entry is produced.                    *)
(***************************************************************************)
DetectorFileMismatch ==
  Len(fem_reconstruction_parameters.nodal_counts_file) # Len(saved_nodal_counts)

C10_MismatchAbortsBeforeSearch ==
  DetectorFileMismatch =>
    /\ pc \in {"load_from_checkpoint", "aborted"}
    /\ search.kind = "none"
    /\ calls = <<>>
    /\ found_positions = <<>>

\* the weaker half of C10 alone: no entry is ever produced on a mismatch
C10_MismatchNoTrajectory ==
  DetectorFileMismatch => found_positions = <<>>

(***************************************************************************)
(* C11: checkpoint() followed by load_from_checkpoint() on the written     *)
(* files, named by detector, gives back the dof indices of every cell, the *)
(* number of detectors and, detector by detector, the saved field.         *)
(***************************************************************************)
C11_CheckpointRoundTrip ==
  (unit.op = "checkpoint" /\ unit.nodal_counts_file = written_names(unit.n_detector)) =>
    /\ unit.loaded.dof_handler = unit.dof_handler
    /\ unit.loaded.n_detector = unit.n_detector
    /\ \A d \in 1..unit.n_detector :
         unit.loaded.nodal_counts[d] = unit.nodal_counts[d]

\* three detectors with three different fields saved and loaded by detector
C11_Witness ==
  /\ unit.op = "checkpoint"
  /\ unit.n_detector = 3
  /\ unit.nodal_counts_file = written_names(3)
  /\ Cardinality({unit.nodal_counts[d] : d \in 1..3}) = 3
  /\ Cardinality(DOMAIN unit.files) = 4
  /\ unit.loaded.nodal_counts = unit.nodal_counts

(***************************************************************************)
(* C12: a search that meets a cell whose system is singular goes on: it    *)
(* returns, it has evaluated every candidate cell, and the cell it selects *)
(* (if any) is not a singular one.                                         *)
(***************************************************************************)
SingularIn(c, experimental_count) ==
  evaluate_cell(c, experimental_count, tol_reference_location).thrown

C12_SingularCellSkipped ==
  \A i \in 1..Len(calls) :
    LET r == calls[i]
    IN  (\E c \in CellsOf(r.visited) :
           SingularIn(c, all_experimental_counts[r.obs])) =>
          /\ r.ret \in {"true", "false"}
          /\ CellsOf(r.visited) = r.candidates
          /\ pc # "aborted"

(***************************************************************************)
(* C13: for the single cell with detector 0 = [10, 20, 20, 20] and         *)
(* detector 1 = [5, 5, 15, 15], the observation [15, 10] and the absolute  *)
(* cost, reference coordinates are returned, they and the implicit         *)
(* coordinate lie in [0, 1], and the counts interpolated at them are       *)
(* [15, 10].                                                               *)
(***************************************************************************)
InUnitInterval(x) == ~RLt(x, RZero) /\ ~RGt(x, ROne)

\* the count of a detector interpolated at reference coordinates x
InterpolatedCount(vertex_count_d, x) ==
  RAdd(RMul(RInt(vertex_count_d[1]), last_constraint_of(x)),
       RSum([i \in 1..dim |-> RMul(RInt(vertex_count_d[i + 1]), x[i])], dim))

C13_TwoDetectorScenario ==
  (/\ unit.op = "assemble_matrix_and_rhs"
   /\ unit.vertex_count = scenario_vertex_count
   /\ unit.experimental_count = scenario_experimental_count
   /\ unit.cost_function_type = "absolute") =>
    /\ ~unit.thrown
    /\ \A i \in 1..dim : InUnitInterval(unit.reference_location[i])
    /\ InUnitInterval(last_constraint_of(unit.reference_location))
    /\ \A d \in 1..Len(unit.vertex_count) :
         InterpolatedCount(unit.vertex_count[d], unit.reference_location) =
           RInt(unit.experimental_count[d])

(***************************************************************************)
(* C14: the validity penalty is the sum over the dim explicit coordinates  *)
(* and the implicit last one of the squared distance of the coordinate     *)
(* from [0, 1]; it is never negative, it is zero exactly when all dim + 1  *)
(* coordinates lie in [0, 1]; it is 0 for (1/4, 1/4, 1/4) and positive for *)
(* (3/2, 0, 0).                                                            *)
(***************************************************************************)
DistanceFromUnitInterval(c) ==
  IF RGt(c, ROne) THEN RSub(c, ROne)
  ELSE IF RLt(c, RZero) THEN RNeg(c)
  ELSE RZero

Squared(x) == RMul(x, x)

C14_ValidityPenalty ==
  unit.op = "calculate_reference_location_error" =>
    LET x == unit.reference_location
        coordinates == <<x[1], x[2], x[3], unit.last_constraint>>
        penalty == unit.norm_error_coordinates
    IN  /\ penalty =
             RAdd(RAdd(Squared(DistanceFromUnitInterval(coordinates[1])),
                       Squared(DistanceFromUnitInterval(coordinates[2]))),
                  RAdd(Squared(DistanceFromUnitInterval(coordinates[3])),
                       Squared(DistanceFromUnitInterval(coordinates[4]))))
        /\ ~RLt(penalty, RZero)
        /\ penalty = RZero <=> \A i \in 1..(dim + 1) : InUnitInterval(coordinates[i])
        /\ x = <<<<1, 4>>, <<1, 4>>, <<1, 4>>>> => penalty = RZero
        /\ x = <<<<3, 2>>, <<0, 1>>, <<0, 1>>>> => RGt(penalty, RZero)

\* the penalty of (3/2, 0, 0): 1/4 for the first coordinate and 1/4 for the
\* implicit coordinate -1/2
C14_Witness ==
  /\ unit.op = "calculate_reference_location_error"
  /\ unit.reference_location = <<<<3, 2>>, <<0, 1>>, <<0, 1>>>>
  /\ unit.last_constraint = <<-1, 2>>
  /\ unit.norm_error_coordinates = <<1, 2>>

(***************************************************************************)
(* C15: in both searches, the step over a cell changes the best cost, the  *)
(* found flag, the anchor or the position only if the validity penalty of  *)
(* that cell is strictly below the tolerance.                              *)
(***************************************************************************)
PenaltyIn(c, experimental_count) ==
  evaluate_cell(c, experimental_count, tol_reference_location).norm_error

C15_StrictTolerance ==
  [][(/\ pc \in {"global_cells", "local_cells"}
      /\ search.next <= Len(search.cells)
      /\ \/ previous_position_cell' # previous_position_cell
         \/ search'.position_found # search.position_found
         \/ search'.max_cost_function # search.max_cost_function
         \/ search'.real_location # search.real_location) =>
       RLt(PenaltyIn(search.cells[search.next], experimental_counts),
           tol_reference_location)]_vars

\* a search has passed over a cell whose penalty equals the tolerance, before
\* any valid cell, and has selected nothing
C15_Witness ==
  /\ pc \in {"global_cells", "local_cells"}
  /\ Len(search.visited) > 0
  /\ PenaltyIn(search.visited[Len(search.visited)], experimental_counts) =
       tol_reference_location
  /\ ~search.position_found
  /\ search.real_location = DefaultPoint

(***************************************************************************)
(* C16: calculate_cost is never negative, and it is zero when every        *)
(* observed count equals the value the detector's field takes at the       *)
(* reference coordinates, in absolute and in relative mode.                *)
(***************************************************************************)
ObservedIsInterpolated ==
  \A d \in 1..Len(unit.vertex_count) :
    InterpolatedCount(unit.vertex_count[d], unit.reference_location) =
      RInt(unit.experimental_count[d])

C16_CostNonNegative ==
  unit.op = "calculate_cost" =>
    /\ ~RLt(unit.cost, RZero)
    /\ ObservedIsInterpolated => unit.cost = RZero

\* relative mode, an interior point, and the observation is what the fields
\* of the detectors give there
C16_Witness ==
  /\ unit.op = "calculate_cost"
  /\ unit.cost_function_type = "relative"
  /\ unit.reference_location = <<<<1, 4>>, <<1, 4>>, <<1, 4>>>>
  /\ Len(unit.vertex_count) >= 2
  /\ ObservedIsInterpolated
  /\ unit.cost = RZero

\* a cost that is not zero
C16_WitnessPositive ==
  /\ unit.op = "calculate_cost"
  /\ RGt(unit.cost, RZero)

(***************************************************************************)
(* C17: the assembled system is, with c = vertex_count and w_d = 1         *)
(* (absolute) or 1 / obs_d^2 (relative),                                   *)
(*   A(i, j) = sum over d of w_d (c_d[j+1] - c_d[0]) (c_d[i+1] - c_d[0])   *)
(*   b(i) = - sum over d of w_d (c_d[0] - obs_d) (c_d[i+1] - c_d[0])       *)
(* and the vector that is returned solves A x = b.                         *)
(***************************************************************************)
Weight(d) ==
  IF unit.cost_function_type = "absolute" THEN ROne
  ELSE RDiv(ROne, Squared(RInt(unit.experimental_count[d])))

\* c_d[k] - c_d[0], with the vertices numbered from 0
Rise(d, k) == RInt(unit.vertex_count[d][k + 1] - unit.vertex_count[d][1])

ReferenceMatrix(i, j) ==
  RSum([d \in 1..Len(unit.vertex_count) |->
          RMul(Weight(d), RMul(Rise(d, j), Rise(d, i)))],
       Len(unit.vertex_count))

ReferenceRhs(i) ==
  RNeg(RSum([d \in 1..Len(unit.vertex_count) |->
               RMul(Weight(d),
                    RMul(RInt(unit.vertex_count[d][1] - unit.experimental_count[d]),
                         Rise(d, i)))],
            Len(unit.vertex_count)))

C17_SystemMatchesFormulas ==
  unit.op = "assemble_matrix_and_rhs" =>
    /\ \A i, j \in 1..dim : unit.sys_matrix[i][j] = ReferenceMatrix(i, j)
    /\ \A i \in 1..dim : unit.sys_rhs[i] = ReferenceRhs(i)
    /\ ~unit.thrown =>
         \A i \in 1..dim :
           RSum([j \in 1..dim |->
                   RMul(unit.sys_matrix[i][j], unit.reference_location[j])],
                dim) = unit.sys_rhs[i]

\* relative mode, four detectors, a right-hand side that is not zero and a
\* solution
C17_Witness ==
  /\ unit.op = "assemble_matrix_and_rhs"
  /\ unit.cost_function_type = "relative"
  /\ Len(unit.vertex_count) = 4
  /\ ~unit.thrown
  /\ unit.sys_rhs # <<RZero, RZero, RZero>>
  /\ unit.reference_location # <<RZero, RZero, RZero>>

(***************************************************************************)
(* C18: when several valid cells share the minimum cost, the cell the      *)
(* global search selects is the one of them it visited first.              *)
(***************************************************************************)
\* the position of cell c in the visitation order
VisitIndex(c) == CHOOSE i \in 1..Len(active_cells) : active_cells[i] = c

C18_FirstMinimumWins ==
  (GlobalSearchDone /\ search.position_found) =>
    LET first_among(best) ==
          /\ previous_position_cell \in best
          /\ \A c \in best : VisitIndex(previous_position_cell) <= VisitIndex(c)
    IN  first_among(BestCells(Cells, experimental_counts))

\* two valid cells of the same minimum cost, and a cell of higher cost
\* visited before them
C18_Witness ==
  /\ GlobalSearchDone
  /\ search.position_found
  /\ Cardinality(BestCells(Cells, experimental_counts)) >= 2
  /\ \E c \in ValidCells(Cells, experimental_counts) :
       /\ RLt(search.max_cost_function, CostIn(c, experimental_counts))
       /\ VisitIndex(c) < VisitIndex(previous_position_cell)

(***************************************************************************)
(* C19: for an anchor and a level L >= 2, the candidate cells built at     *)
(* level L include the candidate cells built at level L - 1.               *)
(***************************************************************************)
C19_CandidatesGrowWithLevel ==
  unit.op = "adjacent_cells" =>
    unit.lower.all_adjacent_cells \subseteq unit.upper.all_adjacent_cells

\* C19 for two builds in which the comparisons with the dereferenced end
\* iterator come out the same way at every level they share
C19_CandidatesGrowSameOutcomes ==
  (/\ unit.op = "adjacent_cells"
   /\ \A l \in DOMAIN unit.lower_end_differs :
        unit.lower_end_differs[l] = unit.end_differs[l]) =>
    unit.lower.all_adjacent_cells \subseteq unit.upper.all_adjacent_cells

(***************************************************************************)
(* C20: the position a search records for its winning cell is the affine   *)
(* combination of the four vertices of that cell in which vertex i + 1 has *)
(* weight reference coordinate i and vertex 0 has weight one minus the sum *)
(* of the reference coordinates; in the global and in the local search.    *)
(***************************************************************************)
\* the reference coordinates the linear system of cell c gives, solved once
\* for the vertex counts and observations of the explored runs
ReferenceArguments == {<<a[2], a[3], a[4]>> : a \in cell_result_arguments}
ReferenceTable ==
  [a \in ReferenceArguments |->
     assemble_matrix_and_rhs(a[1], a[2], a[3]).reference_location]

ReferenceIn(c, experimental_count) ==
  LET lookup(a) ==
        IF a \in ReferenceArguments
          THEN ReferenceTable[a]
          ELSE assemble_matrix_and_rhs(a[1], a[2], a[3]).reference_location
  IN  lookup(<<count_from_all_detectors(c), experimental_count,
               fem_reconstruction_parameters.fem_cost_function>>)

\* x[1] * vertex 1 + x[2] * vertex 2 + x[3] * vertex 3 + (1 - x[1] - x[2] - x[3]) * vertex 0
AffineCombination(c, x) ==
  LET weight0 == RSub(ROne, RAdd(RAdd(x[1], x[2]), x[3]))
      along(k) == RAdd(RAdd(RAdd(RMul(x[1], vertex(c, 1)[k]),
                                 RMul(x[2], vertex(c, 2)[k])),
                            RMul(x[3], vertex(c, 3)[k])),
                       RMul(weight0, vertex(c, 0)[k]))
  IN  <<along(1), along(2), along(3)>>

SearchFoundPosition ==
  /\ pc = "loop"
  /\ Len(calls) > 0
  /\ LastCall.ret = "true"

C20_PositionIsAffineCombination ==
  SearchFoundPosition =>
    found_positions[Len(found_positions)] =
      AffineCombination(previous_position_cell,
                        ReferenceIn(previous_position_cell,
                                    all_experimental_counts[LastCall.obs]))

\* a local search has recorded a position strictly inside its winning cell,
\* away from every vertex, after a global search had recorded one
C20_Witness ==
  /\ SearchFoundPosition
  /\ LastCall.kind = "local"
  /\ \E k \in 1..(Len(calls) - 1) : calls[k].kind = "global" /\ calls[k].ret = "true"
  /\ LET inside(x) == /\ \A i \in 1..dim : RLt(RZero, x[i]) /\ RLt(x[i], ROne)
                      /\ RLt(RZero, RSub(ROne, RAdd(RAdd(x[1], x[2]), x[3])))
     IN  inside(ReferenceIn(previous_position_cell,
                            all_experimental_counts[LastCall.obs]))

(***************************************************************************)
(* C21: from the end of load_from_checkpoint until the export, no step of  *)
(* trajectory() or of the two searches changes the nodal count fields, the *)
(* detector count or the mesh; of the members only found_positions and     *)
(* previous_position_cell change.                                          *)
(***************************************************************************)
LocalizationStates ==
  {"trajectory", "loop", "global_search", "global_cells", "local_search", "local_cells"}

C21_FieldStoreAndMeshReadOnly ==
  [][(pc \in LocalizationStates) =>
       (UNCHANGED <<n_detector, nodal_counts, active_cells,
                    fem_reconstruction_parameters, exported>>)]_vars

\* a localization that went through both searches, moved the anchor and is
\* about to export
C21_Witness ==
  /\ pc = "export_found_positions"
  /\ n_detector >= 3
  /\ Len(found_positions) >= 2
  /\ \E j, k \in 1..Len(calls) :
       /\ calls[j].kind = "global"
       /\ calls[k].kind = "local"
       /\ calls[k].ret = "true"
       /\ calls[k].anchor # previous_position_cell

(***************************************************************************)
(* C22: found_positions is append-only: every step leaves the entries it   *)
(* already holds unchanged in value and in position, and the sequence only *)
(* grows at its end.                                                       *)
(***************************************************************************)
C22_TrajectoryAppendOnly ==
  [][(/\ Len(found_positions') >= Len(found_positions)
      /\ \A i \in 1..Len(found_positions) :
           found_positions'[i] = found_positions[i])]_vars

\* a trajectory of different positions, appended by a global and by a local
\* search
C22_Witness ==
  /\ Len(found_positions) >= 2
  /\ found_positions[1] # found_positions[Len(found_positions)]
  /\ \E j, k \in 1..Len(calls) :
       /\ calls[j].kind = "global" /\ calls[j].entries = 1
       /\ calls[k].kind = "local" /\ calls[k].entries = 1

(***************************************************************************)
(* C23: in a run of rpt_fem_reconstruct the checkpoint is fully loaded     *)
(* before the first search executes, every observation is processed before *)
(* the export starts, and the export happens exactly once, after the last  *)
(* observation.                                                            *)
(***************************************************************************)
CheckpointLoaded ==
  /\ n_detector = Len(fem_reconstruction_parameters.nodal_counts_file)
  /\ Len(nodal_counts) = n_detector
  /\ \A d \in 1..n_detector :
       nodal_counts[d] =
         saved_nodal_counts[fem_reconstruction_parameters.nodal_counts_file[d]]

EveryObservationProcessed ==
  /\ obs_index = Len(all_experimental_counts)
  /\ \A k \in 1..Len(all_experimental_counts) :
       \E j \in 1..Len(calls) : calls[j].obs = k /\ calls[j].entries = 1

\* the order of the phases, and the export at most once
C23_OrderOfRun ==
  /\ [](pc \in SearchStates => CheckpointLoaded)
  /\ [](pc \in {"export_found_positions", "done"} => EveryObservationProcessed)
  /\ [][exported' # exported =>
          (exported = <<>> /\ pc = "export_found_positions")]_vars

\* in every state of a run: the phases are in order, the export has happened
\* when the run is over, and the run is not over before the export
C23_LoadSearchExportOnce ==
  /\ pc \in SearchStates => CheckpointLoaded
  /\ pc \in {"export_found_positions", "done"} => EveryObservationProcessed
  /\ exported # <<>> <=> pc = "done"
  /\ pc # "aborted"

(***************************************************************************)
(* C24: the exported file holds one header row that names the coordinate   *)
(* columns, then exactly one row per entry of found_positions (hence one   *)
(* per observation), in the order of found_positions, each row holding the *)
(* dim coordinates of its entry.                                           *)
(***************************************************************************)
\* w is x as a decimal of six significant digits: within half a unit of the
\* sixth digit, which is at most |x| / 200000
WrittenTo6Digits(w, x) ==
  ~RGt(RMul(RInt(200000), RAbs(RSub(w, x))), RAbs(x))

\* a row: dim numbers, each followed (or, for the last one, possibly not
\* followed) by a separator
RowHolds(row, position) ==
  /\ Len(row) \in {2 * dim - 1, 2 * dim}
  /\ \A k \in 1..dim : WrittenTo6Digits(row[2 * k - 1], position[k])
  /\ \A k \in 1..Len(row) : k % 2 = 0 => row[k] \in {",", " "}

C24_OneRowPerPosition ==
  exported # <<>> =>
    /\ exported.lines[1] \in {"position_x,position_y,position_z ",
                              "position_x position_y position_z "}
    /\ Len(exported.lines) = 1 + Len(found_positions)
    /\ Len(exported.lines) = 1 + Len(all_experimental_counts)
    /\ \A i \in 1..Len(found_positions) :
         RowHolds(exported.lines[i + 1], found_positions[i])

\* an export of several different positions, one with a coordinate that has
\* no finite decimal expansion
C24_Witness ==
  /\ exported # <<>>
  /\ Len(found_positions) >= 2
  /\ found_positions[1] # found_positions[2]
  /\ \E i \in 1..Len(found_positions) : \E k \in 1..dim :
       exported.lines[i + 1][2 * k - 1] # found_positions[i][k]

(***************************************************************************)
(* C25: while the local search expands its candidate cells (proximity      *)
(* level >= 2), every iterator returned by previous_main_cells.find that   *)
(* is dereferenced points to an element of previous_main_cells; end() is   *)
(* never dereferenced.                                                     *)
(***************************************************************************)
C25_EndNeverDereferenced ==
  /\ ~search.end_dereferenced
  /\ \A j \in 1..Len(calls) : ~calls[j].end_dereferenced

(***************************************************************************)
(* C26: with fewer than dim detectors the matrix that                      *)
(* assemble_matrix_and_rhs assembles is singular, whatever the vertex      *)
(* counts and the observation and in both modes: its rank is at most the   *)
(* number of detectors, and no reference coordinates come out of it.       *)
(***************************************************************************)
Minor2(M, r1, r2, c1, c2) ==
  RSub(RMul(M[r1][c1], M[r2][c2]), RMul(M[r1][c2], M[r2][c1]))

\* the rank of a dim x dim matrix, by its minors
RankOf(M) ==
  IF Det3(M) # RZero THEN 3
  ELSE IF \E r1, r2, c1, c2 \in 1..dim :
            r1 < r2 /\ c1 < c2 /\ Minor2(M, r1, r2, c1, c2) # RZero THEN 2
  ELSE IF \E r, c \in 1..dim : M[r][c] # RZero THEN 1
  ELSE 0

C26_FewDetectorsSingular ==
  (unit.op = "assemble_matrix_and_rhs" /\ Len(unit.vertex_count) < dim) =>
    /\ RankOf(unit.sys_matrix) <= Len(unit.vertex_count)
    /\ Det3(unit.sys_matrix) = RZero
    /\ unit.thrown

\* two detectors, relative mode, and a matrix of rank two
C26_Witness ==
  /\ unit.op = "assemble_matrix_and_rhs"
  /\ Len(unit.vertex_count) = 2
  /\ unit.cost_function_type = "relative"
  /\ RankOf(unit.sys_matrix) = 2

\* one detector, absolute mode, and a matrix of rank one
C26_WitnessOneDetector ==
  /\ unit.op = "assemble_matrix_and_rhs"
  /\ Len(unit.vertex_count) = 1
  /\ unit.cost_function_type = "absolute"
  /\ RankOf(unit.sys_matrix) = 1

(***************************************************************************)
(* C27: the anchor previous_position_cell and the position that a search   *)
(* records are updated together: a step of a search over a cell either     *)
(* leaves both as they are or makes the cell the anchor and its position   *)
(* the one to record, and a successful search appends that position and    *)
(* leaves the anchor on that cell.                                         *)
(***************************************************************************)
VisitsCell ==
  /\ pc \in {"global_cells", "local_cells"}
  /\ search.next <= Len(search.cells)

SearchSucceeds ==
  /\ pc \in {"global_cells", "local_cells"}
  /\ search.next > Len(search.cells)
  /\ search.position_found

C27_AnchorAndPositionTogether ==
  [][/\ (VisitsCell /\ pc' # "aborted") =>
          \/ /\ previous_position_cell' = previous_position_cell
             /\ search'.real_location = search.real_location
          \/ /\ previous_position_cell' = search.cells[search.next]
             /\ search'.position_found
             /\ search'.real_location =
                  AffineCombination(search.cells[search.next],
                                    ReferenceIn(search.cells[search.next],
                                                experimental_counts))
     /\ SearchSucceeds =>
          /\ found_positions' = Append(found_positions, search.real_location)
          /\ previous_position_cell' = previous_position_cell]_vars

\* a successful local search whose winning cell is not the cell it started
\* from, after a successful global search that won on another cell than the
\* first one it visited
C27_Witness ==
  /\ pc = "loop"
  /\ Len(calls) >= 2
  /\ LastCall.kind = "local"
  /\ LastCall.ret = "true"
  /\ previous_position_cell # LastCall.anchor
  /\ calls[1].kind = "global"
  /\ calls[1].ret = "true"
  /\ LastCall.anchor # active_cells[1]

(***************************************************************************)
(* C28: with search_type global the position recorded for an observation   *)
(* is a function of the counts of that observation, of the field store and *)
(* of the tolerance alone; the observations before it have no part in it.  *)
(***************************************************************************)
\* what a global search on these counts records, the observations before it
\* left out of account
FreshGlobalPosition(experimental_count) ==
  LET first_of(best) ==
        IF best = {} THEN DefaultPoint
        ELSE LET c == CHOOSE b \in best :
                        \A b2 \in best : VisitIndex(b) <= VisitIndex(b2)
             IN  AffineCombination(c, ReferenceIn(c, experimental_count))
  IN  first_of(BestCells(Cells, experimental_count))

C28_GlobalPositionHistoryFree ==
  (fem_reconstruction_parameters.search_type = "global" /\ pc = "loop") =>
    \A k \in 1..Len(found_positions) :
      found_positions[k] = FreshGlobalPosition(all_experimental_counts[k])

\* the same counts observed first and third, other counts in between: the
\* same position is recorded for the first and the third, another one for
\* the second, and one of the three searches found no valid cell
C28_Witness ==
  /\ fem_reconstruction_parameters.search_type = "global"
  /\ pc = "loop"
  /\ Len(found_positions) = 3
  /\ all_experimental_counts[1] = all_experimental_counts[3]
  /\ all_experimental_counts[1] # all_experimental_counts[2]
  /\ found_positions[1] = found_positions[3]
  /\ found_positions[1] # found_positions[2]
  /\ \E k \in 1..3 : calls[k].ret = "false"

(***************************************************************************)
(* C29: export_found_positions writes the file space-delimited (header     *)
(* "position_x position_y position_z " and the coordinates of a row        *)
(* separated by spaces) when the name of the export file has the extension *)
(* .dat, and comma-delimited for any other name; ".csv" is appended to a   *)
(* name that contains neither ".csv" nor ".dat".                           *)
(***************************************************************************)
EndsWith(str, suffix) ==
  /\ Len(str) >= Len(suffix)
  /\ SubSeq(str, Len(str) - Len(suffix) + 1, Len(str)) = suffix

Contains(str, pat) ==
  \E i \in 1..(Len(str) - Len(pat) + 1) : SubSeq(str, i, i + Len(pat) - 1) = pat

\* every row of the file has this separator after each of its first dim - 1
\* coordinates
SeparatedBy(sep) ==
  \A i \in 2..Len(exported.lines) :
    \A k \in 1..(dim - 1) : exported.lines[i][2 * k] = sep

C29_DelimiterFollowsExtension ==
  exported # <<>> =>
    /\ exported.filename =
         IF Contains(exported.export_positions_file, <<".", "c", "s", "v">>)
              \/ Contains(exported.export_positions_file, <<".", "d", "a", "t">>)
           THEN exported.export_positions_file
           ELSE exported.export_positions_file \o <<".", "c", "s", "v">>
    /\ IF EndsWith(exported.filename, <<".", "d", "a", "t">>)
         THEN /\ exported.lines[1] = "position_x position_y position_z "
              /\ SeparatedBy(" ")
         ELSE /\ exported.lines[1] = "position_x,position_y,position_z "
              /\ SeparatedBy(",")

\* what the code does: every file is comma-delimited, the .dat file too
C29_AlwaysCommaDelimited ==
  exported # <<>> =>
    /\ exported.lines[1] = "position_x,position_y,position_z "
    /\ SeparatedBy(",")

(***************************************************************************)
(* C30: in the JKR particle-wall force routines (fixed and floating walls, *)
(* dim = 2 and 3) a contact whose normal overlap is not positive applies   *)
(* no force and no torque to its particle, and its stored normal overlap   *)
(* and all three components of its tangential overlap are set to zero;     *)
(* force and torque are applied only to contacts with positive overlap.    *)
(***************************************************************************)
WallRoutineReturned ==
  unit.op \in {"calculate_particle_wall_contact_force",
               "calculate_particle_floating_wall_contact_force"}

\* the contacts for which the routine has computed the normal overlap
Computed(k) == unit.pass_distance_check[k]

Overlap(k) ==
  RSub(RMul(unit.before[k].dp, <<1, 2>>), unit.before[k].distance)

AppliedTo(k) ==
  \/ \E i \in 1..Len(unit.force[unit.before[k].particle]) :
       unit.force[unit.before[k].particle][i] = k
  \/ \E i \in 1..Len(unit.torque[unit.before[k].particle]) :
       unit.torque[unit.before[k].particle][i] = k

C30_NoOverlapNoForceAndReset ==
  WallRoutineReturned =>
    \A k \in 1..Len(unit.before) :
      /\ (Computed(k) /\ ~RGt(Overlap(k), RZero)) =>
           /\ ~AppliedTo(k)
           /\ unit.contacts[k].normal_overlap = RZero
           /\ unit.contacts[k].tangential_overlap = <<RZero, RZero, RZero>>
      /\ AppliedTo(k) => RGt(Overlap(k), RZero)

\* what the code does: the first dim components of the tangential overlap
\* are set to zero, the others keep their values
C30_FirstDimComponentsReset ==
  WallRoutineReturned =>
    \A k \in 1..Len(unit.before) :
      /\ (Computed(k) /\ ~RGt(Overlap(k), RZero)) =>
           /\ ~AppliedTo(k)
           /\ unit.contacts[k].normal_overlap = RZero
           /\ \A d \in 1..3 :
                unit.contacts[k].tangential_overlap[d] =
                  IF d <= unit.space_dim THEN RZero
                  ELSE unit.before[k].tangential_overlap[d]
      /\ AppliedTo(k) => RGt(Overlap(k), RZero)

====
